---- MODULE Spec2Model ----
(***************************************************************************)
(* A model of Zotebook's input core: the TouchStateManager state machine   *)
(* (src/input/touch-state.ts), the InputCoordinator that throttles pointer *)
(* events into it (src/input/input-coordinator.ts) and the InputPipeline   *)
(* that turns drawing gestures into strokes (input-pipeline.ts).           *)
(*                                                                         *)
(* Every handler of the code is a pure operator over a record W holding    *)
(* the fields of the objects involved; an action of the model applies one  *)
(* handler to the current state.  The callbacks the handlers make are      *)
(* synchronous, so they are appended, in call order, to per-step logs:     *)
(*   emitted  TouchStateManager -> its TouchStateEventHandlers             *)
(*   icLog    InputCoordinator  -> its InputEventHandlers                  *)
(*   appLog   InputPipeline     -> its InputPipelineEvents                 *)
(***************************************************************************)
EXTENDS Integers, Naturals, Sequences, FiniteSets, TLC

VARIABLES
  \* TouchStateManager
  currentMode,        \* private currentMode
  currentGesture,     \* private currentGesture (NoGesture for null)
  activePointers,     \* private activePointers: id -> position of the PointerState
  lastUpdateTime,     \* private lastUpdateTime
  \* PointerEventManager
  pmPointers,         \* the ids in its activePointers map
  \* InputCoordinator
  isActive,           \* private isActive; handlers is {} exactly when it is false
  lastEventTime,      \* private lastEventTime
  eventQueue,         \* private eventQueue: the queued closures, as the events they hold
  isProcessingQueue,  \* private isProcessingQueue: an animation-frame callback is pending
  droppedEventCount,  \* private droppedEventCount
  eventCount,         \* private eventCount
  \* StrokeProcessor
  activeStroke,       \* private activeStroke (NoStroke for null): id and number of
                      \* points; in the stand-alone StrokeProcessor id, the points
                      \* themselves and lastProcessedIndex
  strokeIdCounter,    \* private strokeIdCounter
  \* InputPipeline
  activeStrokeId,     \* private activeStrokeId (NoId for null)
  strokeProcessingTimer, \* private strokeProcessingTimer (NoTimer for undefined)
  previewUpdateTimer, \* private previewUpdateTimer (NoTimer for undefined)
  timers,             \* the pending window.setTimeout callbacks
  pipelineOptions,    \* private options of the InputPipeline
  currentViewportTransform, \* private currentViewportTransform: its pan
  \* environment and observation
  now,                \* performance.now(), in milliseconds
  emitted,            \* the TouchStateManager handlers fired by the last step, in order
  icLog,              \* the InputEventHandlers the coordinator invoked in the last step
  appLog,             \* the InputPipelineEvents the pipeline invoked in the last step
  strokes,            \* per stroke id: what has happened to the stroke so far
  gesturesDelivered,  \* how many times the application's onGestureRecognized has
                      \* been invoked so far
  solo,               \* how far the input so far is one down, moves, up of one
                      \* pointer; for the stand-alone StrokeProcessor, the points
                      \* given to the stroke last started
  lastCall,           \* the call the last step made (and, for the stand-alone
                      \* TouchStateManager, whether its pointer id was in the
                      \* active-pointer map when it was made)
  \* StrokeProcessor and StrokeToGeometryConverter on their own
  processedStroke,    \* what endStroke returned in the last step (else NoProcessed)
  fitResults,         \* what convertStroke returned for it in the last step
  thrown,             \* whether the last call threw
  strokeOptions,      \* private options of the StrokeProcessor
  \* CornerDetector on its own
  cornerResult,       \* what detectCorners returned in the last step
  \* GestureRecognizer on its own
  activeGestures,     \* private activeGestures: gesture type -> gesture
  tapState,           \* private tapState
  panState,           \* private panState
  zoomState,          \* private zoomState
  rotationState,      \* private rotationState
  undoState,          \* private undoState
  recognized,         \* what the last recognizeGestures returned
  contact             \* what the calls so far have shown the recognizer

touchVars == <<currentMode, currentGesture, activePointers, lastUpdateTime>>
coordinatorVars == <<pmPointers, isActive, lastEventTime, eventQueue,
                     isProcessingQueue, droppedEventCount, eventCount>>
pipelineVars == <<activeStroke, strokeIdCounter, activeStrokeId,
                  strokeProcessingTimer, previewUpdateTimer, timers, pipelineOptions,
                  currentViewportTransform>>
observationVars == <<icLog, appLog, strokes, gesturesDelivered, solo>>
strokeBenchVars == <<processedStroke, fitResults, thrown, strokeOptions>>
gestureVars == <<activeGestures, tapState, panState, zoomState, rotationState,
                 undoState, recognized, contact>>

vars == <<touchVars, coordinatorVars, pipelineVars, observationVars,
          now, emitted, lastCall, strokeBenchVars, cornerResult, gestureVars>>

-----------------------------------------------------------------------------
(* Bounds of the model *)

\* pointer identifiers 1..NumPointerIds handed to the stand-alone TouchStateManager
NumPointerIds == 5
\* the clock of the stand-alone TouchStateManager runs over 0..MaxTouchTime
MaxTouchTime == 1

\* pointer identifiers 1..NumScreenPointers of the DOM events given to the pipeline
NumScreenPointers == 3
\* the pipeline's clock runs over 0..MaxTime, in steps of TimeSteps
MaxTime == 100
\* strokes started in one behaviour (strokeIdCounter grows without limit)
MaxStrokes == 1
\* strokes started in one behaviour of the pipeline under one finger
MaxSoloStrokes == 2
\* events dropped in one behaviour (droppedEventCount grows without limit)
MaxDropped == 1
\* events handled between two resets (eventCount grows without limit)
MaxEvents == 4
\* strokes the stand-alone StrokeProcessor starts in one behaviour
MaxBenchStrokes == 2
\* points given to one stroke of the stand-alone StrokeProcessor
MaxRawPoints == 5
\* the clock of the stand-alone GestureRecognizer runs over 0..MaxGestureTime
MaxGestureTime == 1600
\* calls of recognizeGestures in one behaviour
MaxGestureCalls == 4
\* the arms of the polylines given to the stand-alone CornerDetector have
\* MinArm..MaxArm lattice steps
MaxArm == 10
\* the offsets of the second point of a two-point run are in 0..MaxOffset
MaxOffset == 4
\* the straight strokes given to the stand-alone converter have up to MaxRun steps
MaxRun == 8
\* The length at which throttleEvent stops queueing events and drops them.
\* The code's limit is 100 (input-coordinator.ts:382); the model's queue is
\* cut at this length so that overflow is reached.
MaxQueueLen == 1
\* The number of points at which addPoint drops samples.  The pipeline uses
\* the default of 2000 (stroke-processor.ts:56); the model's buffer is cut here.
MaxStrokePoints == 2

PointerIds == 1..NumPointerIds
ScreenPointers == 1..NumScreenPointers
TimeSteps == {100}

\* Screen positions of the pointer events.  The coordinates are multiples of
\* 60 so that Vec2.divide by a pointer count of 1..6 is exact in the integers.
Positions == {[x |-> 0, y |-> 0], [x |-> 60, y |-> 120]}
\* the one position of the DOM events given to the pipeline
ScreenPositions == {[x |-> 60, y |-> 120]}

-----------------------------------------------------------------------------
(* Vec2 *)

ZERO == [x |-> 0, y |-> 0]
add(a, b) == [x |-> a.x + b.x, y |-> a.y + b.y]
subtract(a, b) == [x |-> a.x - b.x, y |-> a.y - b.y]
divide(a, s) == [x |-> a.x \div s, y |-> a.y \div s]

-----------------------------------------------------------------------------
(* enum TouchMode, enum GestureState *)

IDLE == "idle"
DRAWING == "drawing"
PAN_ZOOM == "pan_zoom"
UNDO == "undo"
MULTI_TOUCH == "multi_touch"
TouchMode == {IDLE, DRAWING, PAN_ZOOM, UNDO, MULTI_TOUCH}

BEGAN == "began"
CHANGED == "changed"
ENDED == "ended"
CANCELLED == "cancelled"

UNDO_HOLD_TIME == 500

\* currentGesture = null
NoGesture == [type |-> "none"]
HasGesture(T) == T.currentGesture.type # "none"

-----------------------------------------------------------------------------
(* Map<number, PointerState> *)

MapSet(m, k, v) == [i \in (DOMAIN m) \cup {k} |-> IF i = k THEN v ELSE m[i]]
MapDelete(m, k) == [i \in (DOMAIN m) \ {k} |-> m[i]]
EmptyMap == [i \in {} |-> ZERO]

RECURSIVE SumPositions(_, _)
SumPositions(m, ids) ==
  IF ids = {} THEN ZERO
  ELSE LET i == CHOOSE j \in ids : TRUE
       IN add(m[i], SumPositions(m, ids \ {i}))

\* PointerUtils.calculateCentroid, as TouchStateManager.calculateCentroid calls it
calculateCentroid(T) ==
  LET n == Cardinality(DOMAIN T.activePointers) IN
  IF n = 0 THEN ZERO
  ELSE divide(SumPositions(T.activePointers, DOMAIN T.activePointers), n)

-----------------------------------------------------------------------------
(* TouchStateManager.  T is a record with (at least) the fields currentMode, *)
(* currentGesture, activePointers, lastUpdateTime and emitted.               *)

Fire(T, note) == [T EXCEPT !.emitted = Append(@, note)]

\* determineTouchMode without the default branch: four or more pointers read as UNDO
determineTouchModeNoDefault(T) ==
  LET count == Cardinality(DOMAIN T.activePointers) IN
  CASE count = 0 -> IDLE
    [] count = 1 -> DRAWING
    [] count = 2 -> PAN_ZOOM
    [] OTHER -> UNDO

determineTouchMode(T) ==
  LET count == Cardinality(DOMAIN T.activePointers) IN
  CASE count = 0 -> IDLE
    [] count = 1 -> DRAWING
    [] count = 2 -> PAN_ZOOM
    [] count = 3 -> UNDO
    [] OTHER -> MULTI_TOUCH

createDrawingGesture(base, pointer) ==
  [type |-> DRAWING, state |-> base.state, startTime |-> base.startTime,
   duration |-> base.duration, pointerCount |-> base.pointerCount,
   centroid |-> base.centroid,
   data |-> [startPosition |-> pointer.position,
             currentPosition |-> pointer.position]]

createPanZoomGesture(T, base) ==
  LET centroid == calculateCentroid(T) IN
  [type |-> PAN_ZOOM, state |-> base.state, startTime |-> base.startTime,
   duration |-> base.duration, pointerCount |-> base.pointerCount,
   centroid |-> base.centroid,
   data |-> [initialCentroid |-> centroid,
             currentCentroid |-> centroid,
             panDelta |-> ZERO]]

createUndoGesture(base, pointer) ==
  [type |-> UNDO, state |-> base.state, startTime |-> base.startTime,
   duration |-> base.duration, pointerCount |-> base.pointerCount,
   centroid |-> base.centroid,
   data |-> [triggerPosition |-> pointer.position,
             confirmationTime |-> pointer.timestamp + UNDO_HOLD_TIME]]

startGesture(T, mode, triggerPointer) ==
  LET baseGesture == [type |-> mode, state |-> BEGAN,
                      startTime |-> triggerPointer.timestamp, duration |-> 0,
                      pointerCount |-> Cardinality(DOMAIN T.activePointers),
                      centroid |-> calculateCentroid(T)]
      g == CASE mode = DRAWING -> createDrawingGesture(baseGesture, triggerPointer)
             [] mode = PAN_ZOOM -> createPanZoomGesture(T, baseGesture)
             [] mode = UNDO -> createUndoGesture(baseGesture, triggerPointer)
             [] OTHER -> [type |-> baseGesture.type, state |-> baseGesture.state,
                          startTime |-> baseGesture.startTime,
                          duration |-> baseGesture.duration,
                          pointerCount |-> baseGesture.pointerCount,
                          centroid |-> baseGesture.centroid,
                          data |-> [none |-> TRUE]]
  IN Fire([T EXCEPT !.currentGesture = g],
          [h |-> "onGestureStarted", gesture |-> g])

updateDrawingGesture(gesture, pointer) ==
  [gesture EXCEPT !.data.currentPosition = pointer.position]

updatePanZoomGesture(T, gesture) ==
  LET currentCentroid == calculateCentroid(T) IN
  [gesture EXCEPT !.data.currentCentroid = currentCentroid,
                  !.data.panDelta = subtract(currentCentroid,
                                             gesture.data.initialCentroid)]

updateUndoGesture(gesture, currentTime) == gesture

\* updateCurrentGesture leaving pointerCount as it was when the gesture began
updateCurrentGestureStaleCount(T, updatedPointer) ==
  IF ~HasGesture(T) THEN T
  ELSE
    LET nowT == updatedPointer.timestamp
        base == [T.currentGesture EXCEPT
                   !.state = CHANGED,
                   !.duration = nowT - T.currentGesture.startTime,
                   !.centroid = calculateCentroid(T)]
        updatedGesture ==
          CASE T.currentGesture.type = DRAWING -> updateDrawingGesture(base, updatedPointer)
            [] T.currentGesture.type = PAN_ZOOM -> updatePanZoomGesture(T, base)
            [] T.currentGesture.type = UNDO -> updateUndoGesture(base, nowT)
            [] OTHER -> base
    IN Fire([T EXCEPT !.currentGesture = updatedGesture],
            [h |-> "onGestureUpdated", gesture |-> updatedGesture])

updateCurrentGesture(T, updatedPointer) ==
  IF ~HasGesture(T) THEN T
  ELSE
    LET nowT == updatedPointer.timestamp
        base == [T.currentGesture EXCEPT
                   !.state = CHANGED,
                   !.duration = nowT - T.currentGesture.startTime,
                   !.pointerCount = Cardinality(DOMAIN T.activePointers),
                   !.centroid = calculateCentroid(T)]
        updatedGesture ==
          CASE T.currentGesture.type = DRAWING -> updateDrawingGesture(base, updatedPointer)
            [] T.currentGesture.type = PAN_ZOOM -> updatePanZoomGesture(T, base)
            [] T.currentGesture.type = UNDO -> updateUndoGesture(base, nowT)
            [] OTHER -> base
    IN Fire([T EXCEPT !.currentGesture = updatedGesture],
            [h |-> "onGestureUpdated", gesture |-> updatedGesture])

endCurrentGesture(T) ==
  IF ~HasGesture(T) THEN T
  ELSE
    LET endedGesture == [T.currentGesture EXCEPT
                           !.state = ENDED,
                           !.duration = T.lastUpdateTime - T.currentGesture.startTime]
    IN [Fire(T, [h |-> "onGestureEnded", gesture |-> endedGesture])
          EXCEPT !.currentGesture = NoGesture]

cancelCurrentGesture(T) ==
  IF ~HasGesture(T) THEN T
  ELSE
    LET cancelledGesture == [T.currentGesture EXCEPT
                               !.state = CANCELLED,
                               !.duration = T.lastUpdateTime - T.currentGesture.startTime]
    IN [Fire(T, [h |-> "onGestureCancelled", gesture |-> cancelledGesture])
          EXCEPT !.currentGesture = NoGesture]

\* transitionToMode without the "End current gesture if transitioning" step
transitionToModeNoEnd(T, newMode, triggerPointer) ==
  LET previousMode == T.currentMode
      T2 == [T EXCEPT !.currentMode = newMode]
      T3 == IF newMode # IDLE THEN startGesture(T2, newMode, triggerPointer) ELSE T2
  IN Fire(T3, [h |-> "onTouchModeChanged",
               previousMode |-> previousMode, currentMode |-> newMode])

\* transitionToMode reading previousMode after the mode was updated
transitionToModeStalePrev(T, newMode, triggerPointer) ==
  LET T1 == IF HasGesture(T) /\ newMode # T.currentMode THEN endCurrentGesture(T) ELSE T
      T2 == [T1 EXCEPT !.currentMode = newMode]
      T3 == IF newMode # IDLE THEN startGesture(T2, newMode, triggerPointer) ELSE T2
  IN Fire(T3, [h |-> "onTouchModeChanged",
               previousMode |-> T2.currentMode, currentMode |-> newMode])

transitionToMode(T, newMode, triggerPointer) ==
  LET previousMode == T.currentMode
      T1 == IF HasGesture(T) /\ newMode # previousMode THEN endCurrentGesture(T) ELSE T
      T2 == [T1 EXCEPT !.currentMode = newMode]
      T3 == IF newMode # IDLE THEN startGesture(T2, newMode, triggerPointer) ELSE T2
  IN Fire(T3, [h |-> "onTouchModeChanged",
               previousMode |-> previousMode, currentMode |-> newMode])

TSM_handlePointerDown(T, pointer) ==
  LET T1 == [T EXCEPT !.activePointers = MapSet(@, pointer.id, pointer.position),
                      !.lastUpdateTime = pointer.timestamp]
      newMode == determineTouchMode(T1)
  IN IF newMode # T1.currentMode
     THEN transitionToMode(T1, newMode, pointer)
     ELSE updateCurrentGesture(T1, pointer)

TSM_handlePointerMove(T, pointer) ==
  IF pointer.id \notin DOMAIN T.activePointers THEN T
  ELSE
    LET T1 == [T EXCEPT !.activePointers = MapSet(@, pointer.id, pointer.position),
                        !.lastUpdateTime = pointer.timestamp]
    IN updateCurrentGesture(T1, pointer)

TSM_handlePointerUp(T, pointer) ==
  LET T1 == [T EXCEPT !.activePointers = MapDelete(@, pointer.id),
                      !.lastUpdateTime = pointer.timestamp]
      newMode == determineTouchMode(T1)
  IN IF newMode # T1.currentMode
     THEN transitionToMode(endCurrentGesture(T1), newMode, pointer)
     ELSE updateCurrentGesture(T1, pointer)

TSM_handlePointerCancel(T, pointer) ==
  LET T1 == [T EXCEPT !.activePointers = MapDelete(@, pointer.id)]
      T2 == cancelCurrentGesture(T1)
      newMode == determineTouchMode(T2)
  IN transitionToMode(T2, newMode, pointer)

TSM_reset(T) ==
  [endCurrentGesture(T) EXCEPT !.activePointers = EmptyMap,
                               !.currentMode = IDLE,
                               !.currentGesture = NoGesture]

-----------------------------------------------------------------------------
(* StrokeProcessor: the life-cycle of activeStroke.  A stroke is its id and  *)
(* the number of points buffered; W.strokes records, per stroke id, how many *)
(* times endStroke ran on it, how many times the pipeline reported it        *)
(* completed or cancelled, and whether the pipeline gave it up.              *)

NoStroke == [id |-> 0, points |-> 0]
NoId == 0
NoTimer == [kind |-> "none"]
NewStrokeRecord == [endStroke |-> 0, completed |-> 0, cancelled |-> 0, givenUp |-> FALSE]

startStroke(W) ==
  LET strokeId == W.strokeIdCounter + 1 IN
  [W EXCEPT !.strokeIdCounter = strokeId,
            !.activeStroke = [id |-> strokeId, points |-> 1],
            !.strokes = Append(@, NewStrokeRecord)]

\* called with an active stroke; without one the code throws (see the callers)
addPoint(W) ==
  IF W.activeStroke.points >= MaxStrokePoints THEN W
  ELSE [W EXCEPT !.activeStroke.points = @ + 1]

\* called with an active stroke; without one the code throws (see the caller)
endStroke(W) ==
  [W EXCEPT !.strokes[W.activeStroke.id].endStroke = @ + 1,
            !.activeStroke = NoStroke]

cancelStroke(W) == [W EXCEPT !.activeStroke = NoStroke]

-----------------------------------------------------------------------------
(* InputPipeline.  The application's InputPipelineEvents handlers are all    *)
(* set and do not throw.  Of currentViewportTransform the pan is kept; zoom  *)
(* and rotation are not part of the state.                                   *)

strokeProcessingDelay == 100
previewUpdateInterval == 50

DEFAULT_PIPELINE_OPTIONS ==
  [enableRealTimePreview |-> TRUE, enableGestureRecognition |-> TRUE,
   strokeProcessingDelay |-> strokeProcessingDelay,
   previewUpdateInterval |-> previewUpdateInterval, enableUndoGesture |-> TRUE]

\* the constructor: this.options = { ...DEFAULT_PIPELINE_OPTIONS, ...options }
PipelineConstructorOptions(options) ==
  [k \in DOMAIN DEFAULT_PIPELINE_OPTIONS |->
     IF k \in DOMAIN options THEN options[k] ELSE DEFAULT_PIPELINE_OPTIONS[k]]

AppFire(W, note) == [W EXCEPT !.appLog = Append(@, note)]

clearTimeout(W, handle) == [W EXCEPT !.timers = @ \ {handle}]

stopPreviewUpdates(W) ==
  IF W.previewUpdateTimer # NoTimer
  THEN [clearTimeout(W, W.previewUpdateTimer) EXCEPT !.previewUpdateTimer = NoTimer]
  ELSE W

cancelActiveStroke(W) ==
  IF W.activeStrokeId = NoId THEN W
  ELSE
    LET strokeId == W.activeStrokeId
        W1 == [W EXCEPT !.activeStrokeId = NoId,
                        !.strokes[strokeId].givenUp = TRUE]
        W2 == cancelStroke(W1)
        W3 == stopPreviewUpdates(W2)
    IN AppFire([W3 EXCEPT !.strokes[strokeId].cancelled = @ + 1],
               [cb |-> "onStrokeCancelled", stroke |-> strokeId])

handleError(W, context) ==
  LET W1 == AppFire(W, [cb |-> "onError", context |-> context]) IN
  IF context \in {"drawing_started", "drawing_moved", "drawing_ended", "stroke_processing"}
  THEN cancelActiveStroke(W1)
  ELSE W1

handleDrawingStarted(W, position, gesture) ==
  LET W1 == startStroke(W)
      W2 == [W1 EXCEPT !.activeStrokeId = W1.activeStroke.id]
  IN AppFire(W2, [cb |-> "onStrokeStarted", stroke |-> W2.activeStrokeId,
                  startPoint |-> position])

handleDrawingMoved(W, position, gesture) ==
  IF W.activeStrokeId = NoId THEN W
  ELSE IF W.activeStroke = NoStroke THEN handleError(W, "drawing_moved")
  ELSE
    LET W1 == addPoint(W)
        t == [kind |-> "preview", stroke |-> W.activeStrokeId,
              due |-> W.now + previewUpdateInterval]
    IN IF W1.previewUpdateTimer = NoTimer
       THEN [W1 EXCEPT !.timers = @ \cup {t}, !.previewUpdateTimer = t]
       ELSE W1

handleDrawingEnded(W, gesture) ==
  IF W.activeStrokeId = NoId THEN W
  ELSE
    LET W1 == stopPreviewUpdates(W)
        t == [kind |-> "stroke", stroke |-> W.activeStrokeId,
              due |-> W.now + strokeProcessingDelay]
    IN [W1 EXCEPT !.timers = @ \cup {t}, !.strokeProcessingTimer = t]

handlePanMoved(W, delta, centroid, gesture) ==
  LET W1 == [W EXCEPT !.currentViewportTransform.pan = add(@, delta)]
  IN AppFire(W1, [cb |-> "onViewportChanged",
                  transform |-> W1.currentViewportTransform])

handleZoomChanged(W, centroid, gesture) ==
  AppFire(W, [cb |-> "onViewportChanged",
              transform |-> W.currentViewportTransform])

handleUndoTriggered(W, position, gesture) ==
  AppFire(W, [cb |-> "onUndoRequested", position |-> position])

handleInputModeChanged(W, previousMode, mode) ==
  LET W1 == IF previousMode = DRAWING /\ mode # DRAWING
            THEN cancelActiveStroke(W) ELSE W
  IN AppFire(W1, [cb |-> "onInputModeChanged", mode |-> mode])

updateStrokePreview(W) ==
  IF W.activeStrokeId = NoId THEN W
  ELSE AppFire(W, [cb |-> "onStrokeProgress", stroke |-> W.activeStrokeId,
                   points |-> W.activeStroke.points])

processCompletedStroke(W) ==
  IF W.activeStrokeId = NoId THEN W
  ELSE IF W.activeStroke = NoStroke
  THEN cancelActiveStroke(handleError(W, "stroke_processing"))
  ELSE
    LET strokeId == W.activeStroke.id
        W1 == endStroke(W)
        W2 == AppFire([W1 EXCEPT !.strokes[strokeId].completed = @ + 1],
                      [cb |-> "onStrokeCompleted", stroke |-> strokeId])
    IN [W2 EXCEPT !.activeStrokeId = NoId]

cleanup(W) ==
  LET W1 == stopPreviewUpdates(W)
      W2 == IF W1.strokeProcessingTimer # NoTimer
            THEN [clearTimeout(W1, W1.strokeProcessingTimer)
                    EXCEPT !.strokeProcessingTimer = NoTimer]
            ELSE W1
  IN IF W2.activeStrokeId = NoId THEN W2
     ELSE [W2 EXCEPT !.strokes[W2.activeStrokeId].givenUp = TRUE,
                     !.activeStrokeId = NoId]

-----------------------------------------------------------------------------
(* InputCoordinator.  Its handlers field holds the pipeline's handlers while *)
(* isActive and is {} otherwise.                                             *)

maxEventsPerSecond == 240
BatchSize == 5

IcFire(W, cb, gesture) == [W EXCEPT !.icLog = Append(@, [cb |-> cb, gesture |-> gesture])]

handleTouchModeChanged(W, previousMode, mode) ==
  IF W.isActive
  THEN handleInputModeChanged(
         [W EXCEPT !.icLog = Append(@, [cb |-> "onInputModeChanged",
                                        previousMode |-> previousMode,
                                        currentMode |-> mode])],
         previousMode, mode)
  ELSE W

handleGestureStarted(W, gesture) ==
  IF ~W.isActive THEN W
  ELSE CASE gesture.type = DRAWING ->
              handleDrawingStarted(IcFire(W, "onDrawingStarted", gesture),
                                   gesture.centroid, gesture)
         [] gesture.type = PAN_ZOOM ->
              IcFire(IcFire(W, "onPanStarted", gesture), "onZoomStarted", gesture)
         [] OTHER -> W

handleGestureUpdated(W, gesture) ==
  IF ~W.isActive THEN W
  ELSE CASE gesture.type = DRAWING ->
              handleDrawingMoved(IcFire(W, "onDrawingMoved", gesture),
                                 gesture.centroid, gesture)
         [] gesture.type = PAN_ZOOM ->
              LET W1 == handlePanMoved(IcFire(W, "onPanMoved", gesture),
                                       gesture.data.panDelta,
                                       gesture.data.currentCentroid, gesture)
              IN handleZoomChanged(IcFire(W1, "onZoomChanged", gesture),
                                   gesture.data.currentCentroid, gesture)
         [] OTHER -> W

handleGestureEnded(W, gesture) ==
  IF ~W.isActive THEN W
  ELSE CASE gesture.type = DRAWING ->
              handleDrawingEnded(IcFire(W, "onDrawingEnded", gesture), gesture)
         [] gesture.type = PAN_ZOOM ->
              IcFire(IcFire(W, "onPanEnded", gesture), "onZoomEnded", gesture)
         [] gesture.type = UNDO ->
              handleUndoTriggered(IcFire(W, "onUndoTriggered", gesture),
                                  gesture.centroid, gesture)
         [] OTHER -> W

handleGestureCancelled(W, gesture) == handleGestureEnded(W, gesture)

\* setupEventHandlers: the TouchStateEventHandlers the coordinator installs
Dispatch(W, note) ==
  CASE note.h = "onTouchModeChanged" ->
         handleTouchModeChanged(W, note.previousMode, note.currentMode)
    [] note.h = "onGestureStarted" -> handleGestureStarted(W, note.gesture)
    [] note.h = "onGestureUpdated" -> handleGestureUpdated(W, note.gesture)
    [] note.h = "onGestureEnded" -> handleGestureEnded(W, note.gesture)
    [] note.h = "onGestureCancelled" -> handleGestureCancelled(W, note.gesture)

RECURSIVE DispatchAll(_, _)
DispatchAll(W, notes) ==
  IF notes = <<>> THEN W
  ELSE DispatchAll(Dispatch(W, Head(notes)), Tail(notes))

\* A call into the TouchStateManager made by the coordinator: T is the state
\* the call leaves, started from W with an empty log.  The handlers the call
\* fired run synchronously inside it; none of them reads or writes the
\* TouchStateManager, so they are applied here in the order they were fired.
Delivered(W, T) ==
  DispatchAll([T EXCEPT !.emitted = W.emitted \o T.emitted], T.emitted)

Quiet(W) == [W EXCEPT !.emitted = <<>>]

\* the closure handlePointerDown/Move/Up/Cancel hands to throttleEvent
RunEventHandler(W, event) ==
  CASE event.kind = "down" -> Delivered(W, TSM_handlePointerDown(Quiet(W), event.pointer))
    [] event.kind = "move" -> Delivered(W, TSM_handlePointerMove(Quiet(W), event.pointer))
    [] event.kind = "up" -> Delivered(W, TSM_handlePointerUp(Quiet(W), event.pointer))
    [] event.kind = "cancel" -> Delivered(W, TSM_handlePointerCancel(Quiet(W), event.pointer))

\* requestAnimationFrame(callback) unless one is pending or nothing is queued
processEventQueue(W) ==
  IF W.isProcessingQueue \/ W.eventQueue = <<>> THEN W
  ELSE [W EXCEPT !.isProcessingQueue = TRUE]

\* throttleEvent that queues every event
throttleEventAlwaysQueue(W, event) ==
  IF Len(W.eventQueue) < MaxQueueLen
  THEN processEventQueue([W EXCEPT !.eventQueue = Append(@, event)])
  ELSE [W EXCEPT !.droppedEventCount = @ + 1]

throttleEvent(W, event) ==
  LET timeSinceLastEvent == W.now - W.lastEventTime IN
  IF timeSinceLastEvent * maxEventsPerSecond >= 1000
  THEN [RunEventHandler(W, event) EXCEPT !.lastEventTime = W.now,
                                         !.eventCount = @ + 1]
  ELSE IF Len(W.eventQueue) < MaxQueueLen
  THEN processEventQueue([W EXCEPT !.eventQueue = Append(@, event)])
  ELSE [W EXCEPT !.droppedEventCount = @ + 1]

RECURSIVE RunBatch(_, _)
RunBatch(W, n) ==
  IF n = 0 THEN W
  ELSE LET W1 == RunEventHandler([W EXCEPT !.eventQueue = Tail(@)], Head(W.eventQueue))
       IN RunBatch([W1 EXCEPT !.eventCount = @ + 1], n - 1)

\* the callback processEventQueue gives to requestAnimationFrame
AnimationFrameCallback(W) ==
  LET batchSize == IF Len(W.eventQueue) < BatchSize THEN Len(W.eventQueue) ELSE BatchSize
      W1 == [RunBatch(W, batchSize) EXCEPT !.isProcessingQueue = FALSE]
  IN IF W1.eventQueue # <<>> THEN processEventQueue(W1) ELSE W1

IC_deactivate(W) ==
  IF ~W.isActive THEN W
  ELSE
    LET W1 == [W EXCEPT !.pmPointers = {}]
        W2 == Delivered(W1, TSM_reset(Quiet(W1)))
    IN [W2 EXCEPT !.isActive = FALSE]

IC_activate(W) ==
  LET W1 == IF W.isActive THEN IC_deactivate(W) ELSE W
  IN [W1 EXCEPT !.isActive = TRUE]

IC_reset(W) ==
  [Delivered(W, TSM_reset(Quiet(W))) EXCEPT !.eventQueue = <<>>,
                                            !.droppedEventCount = 0,
                                            !.eventCount = 0]

\* InputPipeline.activate, deactivate, reset
IP_activate(W) == IC_activate(W)

IP_deactivate(W) == cleanup(IC_deactivate(W))

IP_reset(W) == cleanup(cancelStroke(IC_reset(W)))

\* PointerEventManager: the DOM listeners, which forward to the coordinator
PEM_handlePointerDown(W, pointer) ==
  throttleEvent([W EXCEPT !.pmPointers = @ \cup {pointer.id}],
                [kind |-> "down", pointer |-> pointer])

PEM_handlePointerMove(W, pointer) ==
  IF pointer.id \notin W.pmPointers THEN W
  ELSE throttleEvent(W, [kind |-> "move", pointer |-> pointer])

PEM_handlePointerUp(W, pointer) ==
  IF pointer.id \notin W.pmPointers THEN W
  ELSE [throttleEvent(W, [kind |-> "up", pointer |-> pointer])
          EXCEPT !.pmPointers = @ \ {pointer.id}]

PEM_handlePointerCancel(W, pointer) ==
  IF pointer.id \notin W.pmPointers THEN W
  ELSE [throttleEvent(W, [kind |-> "cancel", pointer |-> pointer])
          EXCEPT !.pmPointers = @ \ {pointer.id}]

-----------------------------------------------------------------------------
(* StrokeProcessor in detail, for strokes drawn along the y axis: a position *)
(* (0, y) is its y in thousandths of a pixel, so that distances are          *)
(* differences and the direction of a segment is the sign of one.  A stroke  *)
(* point is its position; S is the processor with what its last call         *)
(* returned or threw.                                                        *)

Px(n) == 1000 * n
Abs(n) == IF n < 0 THEN -n ELSE n
Max(a, b) == IF a >= b THEN a ELSE b
Min(a, b) == IF a <= b THEN a ELSE b
Sign(n) == IF n > 0 THEN 1 ELSE IF n < 0 THEN -1 ELSE 0
\* a / b rounded to the nearest integer, b > 0
RoundDiv(a, b) == (2 * a + b) \div (2 * b)
\* arrays are indexed from 0
At(points, i) == points[i + 1]

distanceTo(a, b) == Abs(a - b)
\* a.lerp(b, num / den)
lerp(a, b, num, den) == a + RoundDiv((b - a) * num, den)

\* DEFAULT_PROCESSING_OPTIONS
targetSpacing == Px(2)
\* smoothingFactor 0.3, in tenths
smoothingFactor == 3
\* minCornerAngle Math.PI / 6, in degrees
minCornerAngle == 30
maxPointsPerStroke == 2000

\* the options of `new StrokeProcessor()`, those that a caller of the model
\* varies
DEFAULT_PROCESSING_OPTIONS == [maxPointsPerStroke |-> maxPointsPerStroke]

NoProcessed == [id |-> 0]

\* the indices first..last in order
Indices(first, last) == [k \in 1..(last - first + 1) |-> first + k - 1]

RECURSIVE Sum(_)
Sum(values) == IF values = <<>> THEN 0 ELSE Head(values) + Sum(Tail(values))

smoothPointAtIndex(points, index) ==
  LET windowSize == 2
      start == Max(0, index - windowSize)
      end == Min(Len(points) - 1, index + windowSize)
      \* weight = 1 - |i - index| / (windowSize + 1), times windowSize + 1
      weight(i) == (windowSize + 1) - Abs(i - index)
      window == Indices(start, end)
      sumPosition == Sum([k \in DOMAIN window |-> At(points, window[k]) * weight(window[k])])
      count == Sum([k \in DOMAIN window |-> weight(window[k])])
      smoothedPosition == RoundDiv(sumPosition, count)
  IN lerp(At(points, index), smoothedPosition, smoothingFactor, 10)

RECURSIVE SmoothRange(_, _, _)
\* for (i = from; i <= to; i++) points[i] = smoothPointAtIndex(points, i)
SmoothRange(points, from, to) ==
  IF from > to THEN points
  ELSE SmoothRange([points EXCEPT ![from + 1] = smoothPointAtIndex(points, from)],
                   from + 1, to)

applyRealTimeSmoothing(stroke) ==
  IF Len(stroke.points) < 3 THEN stroke
  ELSE LET lastIndex == Len(stroke.points) - 1
           smoothingRadius == 2
           startIndex == Max(stroke.lastProcessedIndex, smoothingRadius)
           endIndex == Max(lastIndex - smoothingRadius, startIndex)
       IN [stroke EXCEPT !.points = SmoothRange(@, startIndex, endIndex),
                         !.lastProcessedIndex = endIndex]

RECURSIVE Deduplicate(_, _, _)
Deduplicate(points, i, result) ==
  IF i > Len(points) - 1 THEN result
  ELSE LET minDistance == targetSpacing \div 2
           lastPoint == result[Len(result)]
       IN Deduplicate(points, i + 1,
                      IF distanceTo(At(points, i), lastPoint) >= minDistance
                      THEN Append(result, At(points, i)) ELSE result)

removeDuplicatePoints(points) ==
  IF Len(points) <= 1 THEN points ELSE Deduplicate(points, 1, <<points[1]>>)

applySmoothingFilter(points) ==
  IF Len(points) <= 2 THEN points
  ELSE LET windowSize == 2
           \* passes = Math.ceil(smoothingFactor * 3) = 1
       IN SmoothRange(points, windowSize, Len(points) - windowSize - 1)

RECURSIVE Interpolate(_, _, _, _)
\* the while loop of resampleStroke; on a line the point at
\* t = 1 - excess / segmentLength lies segmentLength - excess after previous
Interpolate(previous, current, accumulatedDistance, result) ==
  IF accumulatedDistance < targetSpacing
  THEN [result |-> result, accumulatedDistance |-> accumulatedDistance]
  ELSE LET segmentLength == distanceTo(previous, current)
           excess == accumulatedDistance - targetSpacing
           interpolatedPoint ==
             previous + Sign(current - previous) * (segmentLength - excess)
       IN Interpolate(previous, current, excess, Append(result, interpolatedPoint))

RECURSIVE Resample(_, _, _, _)
Resample(points, i, accumulatedDistance, result) ==
  IF i > Len(points) - 1 THEN result
  ELSE LET previousPoint == At(points, i - 1)
           currentPoint == At(points, i)
           segmentLength == distanceTo(previousPoint, currentPoint)
           R == Interpolate(previousPoint, currentPoint,
                            accumulatedDistance + segmentLength, result)
       IN Resample(points, i + 1, R.accumulatedDistance, R.result)

resampleStroke(points) ==
  IF Len(points) <= 1 THEN points
  ELSE Append(Resample(points, 1, 0, <<points[1]>>), points[Len(points)])

\* Math.acos of the dot product of two unit vectors along the y axis, in degrees
acosDegrees(dot) == CASE dot = 1 -> 0 [] dot = 0 -> 90 [] dot = -1 -> 180

calculateAngleAtPoint(points, index, windowSize) ==
  LET beforeIndex == index - windowSize
      afterIndex == index + windowSize
  IN IF beforeIndex < 0 \/ afterIndex >= Len(points) THEN 180
     ELSE LET vec1 == Sign(At(points, index) - At(points, beforeIndex))
              vec2 == Sign(At(points, afterIndex) - At(points, index))
          IN acosDegrees(vec1 * vec2)

detectCorners(points) ==
  IF Len(points) < 3 THEN <<>>
  ELSE LET windowSize == 3
           IsCorner(i) == calculateAngleAtPoint(points, i, windowSize) < minCornerAngle
       IN SelectSeq(Indices(windowSize, Len(points) - windowSize - 1), IsCorner)

processStroke(rawStroke) ==
  LET deduplicated == removeDuplicatePoints(rawStroke.points)
      smoothed == applySmoothingFilter(deduplicated)
      resampled == resampleStroke(smoothed)
      cornerIndices == detectCorners(resampled)
  IN [id |-> rawStroke.id, points |-> rawStroke.points,
      smoothedPoints |-> smoothed, resampledPoints |-> resampled,
      cornerIndices |-> cornerIndices]

SP_startStroke(S, initialPoint) ==
  LET strokeId == S.strokeIdCounter + 1 IN
  [S EXCEPT !.strokeIdCounter = strokeId,
            !.activeStroke = [id |-> strokeId, points |-> <<initialPoint>>,
                              lastProcessedIndex |-> 0],
            !.strokes = Append(@, NewStrokeRecord),
            !.thrown = FALSE]

\* addPoint without the performance limit check
SP_addPointIgnoresCap(S, point) ==
  IF S.activeStroke = NoStroke THEN [S EXCEPT !.thrown = TRUE]
  ELSE [S EXCEPT !.activeStroke =
                   applyRealTimeSmoothing([@ EXCEPT !.points = Append(@, point)]),
                 !.thrown = FALSE]

SP_addPoint(S, point) ==
  IF S.activeStroke = NoStroke THEN [S EXCEPT !.thrown = TRUE]
  ELSE IF Len(S.activeStroke.points) >= S.options.maxPointsPerStroke
  THEN [S EXCEPT !.thrown = FALSE]
  ELSE [S EXCEPT !.activeStroke =
                     applyRealTimeSmoothing([@ EXCEPT !.points = Append(@, point)]),
                 !.thrown = FALSE]

\* endStroke without `this.activeStroke = null`
SP_endStrokeKeepsStroke(S) ==
  IF S.activeStroke = NoStroke THEN [S EXCEPT !.thrown = TRUE]
  ELSE LET rawStroke == [id |-> S.activeStroke.id, points |-> S.activeStroke.points]
       IN [S EXCEPT !.processedStroke = processStroke(rawStroke),
                    !.strokes[S.activeStroke.id].endStroke = @ + 1,
                    !.thrown = FALSE]

SP_endStroke(S) ==
  IF S.activeStroke = NoStroke THEN [S EXCEPT !.thrown = TRUE]
  ELSE LET rawStroke == [id |-> S.activeStroke.id, points |-> S.activeStroke.points]
       IN [S EXCEPT !.processedStroke = processStroke(rawStroke),
                    !.strokes[S.activeStroke.id].endStroke = @ + 1,
                    !.activeStroke = NoStroke,
                    !.thrown = FALSE]

SP_cancelStroke(S) ==
  [S EXCEPT !.activeStroke = NoStroke,
            !.strokes = IF S.activeStroke = NoStroke THEN @
                        ELSE [@ EXCEPT ![S.activeStroke.id].cancelled = 1],
            !.thrown = FALSE]

-----------------------------------------------------------------------------
(* CornerDetector, for positions on the y axis.  Curvatures are in           *)
(* thousandths of 1/pixel.                                                   *)

\* DEFAULT_CORNER_OPTIONS
curvatureThreshold == 800
smoothingWindow == 5

\* every three positions on the y axis are collinear: the cross product of
\* (0, p2 - p1) and (0, p3 - p1) is 0 and so is the area of the triangle
calculateCircumcircleCurvature(p1, p2, p3) ==
  LET crossProduct == 0 * (p3 - p1) - (p2 - p1) * 0
      area == Abs(crossProduct)
  IN CASE area = 0 -> 0

calculateCurvatures(points) ==
  LET windowSize == smoothingWindow IN
  [k \in 1..Len(points) |->
     LET i == k - 1 IN
     IF i < windowSize \/ i >= Len(points) - windowSize THEN 0
     ELSE calculateCircumcircleCurvature(At(points, i - windowSize), At(points, i),
                                         At(points, i + windowSize))]

\* Math.exp(-(x * x) / (2 * sigma * sigma)) for sigma = 5 / 6 and
\* x = -2 .. 2, in thousandths; smoothCurvatures divides by the sum of the
\* weights, so the normalisation of the kernel cancels
createGaussianKernel == <<56, 487, 1000, 487, 56>>

smoothCurvatures(curvatures) ==
  IF Len(curvatures) < 3 THEN curvatures
  ELSE LET kernel == createGaussianKernel
           halfWindow == smoothingWindow \div 2
           window == Indices(-halfWindow, halfWindow)
           weight(j) == At(kernel, j + halfWindow)
       IN [k \in 1..Len(curvatures) |->
             LET i == k - 1 IN
             IF i < halfWindow \/ i >= Len(curvatures) - halfWindow
             THEN curvatures[k]
             ELSE RoundDiv(Sum([n \in DOMAIN window |->
                                  At(curvatures, i + window[n]) * weight(window[n])]),
                           Sum([n \in DOMAIN window |-> weight(window[n])]))]

\* [...values].sort((a, b) => a - b)[index]
SortedAt(values, index) ==
  CHOOSE v \in {values[n] : n \in DOMAIN values} :
    /\ Cardinality({n \in DOMAIN values : values[n] < v}) <= index
    /\ index < Cardinality({n \in DOMAIN values : values[n] <= v})

calculateAdaptiveThreshold(curvatures) ==
  IF Len(curvatures) = 0 THEN curvatureThreshold
  ELSE LET median == SortedAt(curvatures, Len(curvatures) \div 2)
           q75 == SortedAt(curvatures, (Len(curvatures) * 3) \div 4)
           max == SortedAt(curvatures, Len(curvatures) - 1)
       IN Max(Max(median + (q75 - median) * 2, (max * 3) \div 10),
              curvatureThreshold)

\* no candidate is found on the y axis, so isValidCornerPosition is never asked
findCornerCandidates(points, curvatures) ==
  LET threshold == calculateAdaptiveThreshold(curvatures)
      IsCandidate(i) == /\ At(curvatures, i) > threshold
                        /\ At(curvatures, i) > At(curvatures, i - 1)
                        /\ At(curvatures, i) > At(curvatures, i + 1)
  IN SelectSeq(Indices(1, Len(curvatures) - 2), IsCandidate)

\* filterNearbyCorners and refineCornerPosition leave no corners as they are
refineCorners(points, candidates) == CASE candidates = <<>> -> <<>>

CD_detectCorners(points) ==
  IF Len(points) < 3 THEN <<>>
  ELSE LET curvatures == calculateCurvatures(points)
           smoothedCurvatures == smoothCurvatures(curvatures)
           candidates == findCornerCandidates(points, smoothedCurvatures)
       IN refineCorners(points, candidates)

-----------------------------------------------------------------------------
(* StrokeToGeometryConverter, for positions on the y axis.  Confidences are  *)
(* in thousandths.                                                           *)

\* DEFAULT_CONVERSION_OPTIONS
minSegmentLength == Px(20)
confidenceThreshold == 600

LINE == "line"
NoFit == [type |-> "null"]

\* points.slice(from, to + 1)
Slice(points, from, to) == SubSeq(points, from + 1, to + 1)

isSegmentTooShort(points) ==
  IF Len(points) < 2 THEN TRUE
  ELSE distanceTo(points[1], points[Len(points)]) < minSegmentLength

\* Points that lie between the ends of the segment are at distance 0 from it
\* and from its line: the error of the fit is 0 and the linearity 1.
fitLine(points) ==
  LET startPoint == points[1]
      endPoint == points[Len(points)]
      Between(p) == Min(startPoint, endPoint) <= p /\ p <= Max(startPoint, endPoint)
  IN CASE \A k \in 1..Len(points) : Between(points[k]) ->
       [type |-> LINE, start |-> startPoint, end |-> endPoint, confidence |-> 1000]

\* fitCircle gives null for a segment that is not closed, and a segment that
\* is not too short is not closed; fitArc gives null for collinear points:
\* the line is the only fit to select
fitSegment(points) ==
  IF Len(points) < 2 THEN NoFit
  ELSE IF isSegmentTooShort(points) THEN NoFit
  ELSE fitLine(points)

RECURSIVE MergeSorted(_, _)
MergeSorted(a, b) ==
  IF a = <<>> THEN b
  ELSE IF b = <<>> THEN a
  ELSE IF Head(a) = Head(b) THEN MergeSorted(a, Tail(b))
  ELSE IF Head(a) < Head(b) THEN <<Head(a)>> \o MergeSorted(Tail(a), b)
  ELSE <<Head(b)>> \o MergeSorted(a, Tail(b))

\* Array.from(new Set([...strokeCorners, ...detectedCorners])).sort(): both
\* arrays are in increasing order without repetitions
mergeCornerDetection(strokeCorners, detectedCorners) ==
  MergeSorted(strokeCorners, detectedCorners)

Accept(results, segmentResult) ==
  IF segmentResult # NoFit /\ segmentResult.confidence >= confidenceThreshold
  THEN Append(results, segmentResult) ELSE results

RECURSIVE FitBetweenCorners(_, _, _, _)
\* the loop of convertStroke over the corners, then its final segment
FitBetweenCorners(points, corners, segmentStart, results) ==
  IF corners = <<>>
  THEN IF segmentStart < Len(points) - 1
       THEN Accept(results, fitSegment(Slice(points, segmentStart, Len(points) - 1)))
       ELSE results
  ELSE LET cornerIndex == Head(corners) IN
       FitBetweenCorners(points, Tail(corners), cornerIndex,
                         IF cornerIndex > segmentStart
                         THEN Accept(results,
                                     fitSegment(Slice(points, segmentStart, cornerIndex)))
                         ELSE results)

convertStroke(stroke) ==
  LET points == stroke.resampledPoints IN
  IF Len(points) < 2 THEN <<>>
  ELSE LET corners == mergeCornerDetection(stroke.cornerIndices,
                                           CD_detectCorners(points))
       IN FitBetweenCorners(points, corners, 0, <<>>)

\* no detectCorners has returned
NoCornerResult == [cornerIndices |-> <<>>, segments |-> <<>>]

StrokeBenchInit ==
  /\ processedStroke = NoProcessed
  /\ fitResults = <<>>
  /\ thrown = FALSE
  /\ cornerResult = NoCornerResult

-----------------------------------------------------------------------------
(* GestureRecognizer, for pointers on the x axis.  G is the recognizer: its  *)
(* activeGestures (each gesture by its phase, all that is read of it) and    *)
(* its five tracking states; gestureHistory, the velocities and the          *)
(* confidences, which no decision of the recognizer reads, are left out.     *)
(* A field that is not set is Undefined, Nowhere if it holds a vector.  A    *)
(* recognized gesture is its type, phase, timestamp, duration and data.      *)
(* Angles are in degrees; a scale and a confirmationProgress are fractions   *)
(* num / den.                                                                *)

\* enum GestureType; GestureType.UNDO is the string of TouchMode.UNDO
PAN == "pan"
ZOOM == "zoom"
ROTATE == "rotate"
TAP == "tap"
LONG_PRESS == "long_press"
SWIPE == "swipe"

\* enum GesturePhase, the members that GestureState does not have
POSSIBLE == "possible"
FAILED == "failed"

\* DEFAULT_GESTURE_OPTIONS
panThreshold == 10
\* zoomThreshold 0.1
zoomThreshold == [num |-> 1, den |-> 10]
\* rotationThreshold Math.PI / 18
rotationThreshold == 10
tapTimeout == 300
tapRadius == 20
longPressTimeout == 500
undoHoldTime == 800
swipeMinVelocity == 100
swipeMinDistance == 50
\* const maxMultiTapInterval of calculateTapCount
maxMultiTapInterval == 400

\* undefined as a number that is no time, count, spread or angle, and as a
\* vector that is no position or translation on the x axis; an isConfirmed
\* that is not set is FALSE, as it is read
Undefined == -1
Nowhere == [x |-> 0, y |-> -1]
\* !x for a number that may be undefined
Falsy(x) == x = Undefined \/ x = 0

\* private tapState = {} and the other four
NoTapState ==
  [startTime |-> Undefined, startPosition |-> Nowhere, tapCount |-> Undefined,
   lastTapTime |-> Undefined]
NoPanState ==
  [initialCentroid |-> Nowhere, totalTranslation |-> Nowhere,
   startTime |-> Undefined]
NoZoomState ==
  [initialSpread |-> Undefined, scale |-> [num |-> 1, den |-> 0],
   startTime |-> Undefined]
NoRotationState ==
  [initialAngle |-> Undefined, lastAngle |-> Undefined, totalRotation |-> Undefined,
   startTime |-> Undefined]
NoUndoState ==
  [startTime |-> Undefined, requiredHoldTime |-> Undefined, isConfirmed |-> FALSE]

\* new Map<GestureType, RecognizedGesture>()
NoGestures == [t \in {} |-> POSSIBLE]

\* a recognizer returning null
NoRecognized == [type |-> "null"]

\* Vec2.length of a vector along the x axis
length(v) == CASE v.y = 0 -> Abs(v.x)

\* PointerUtils.calculateCentroid(pointers)
centroidOf(pointers) ==
  calculateCentroid([activePointers |-> [i \in DOMAIN pointers |-> pointers[i].position]])

\* PointerUtils.calculateSpread(pointers)
calculateSpread(pointers) ==
  IF Len(pointers) < 2 THEN 0
  ELSE LET centroid == centroidOf(pointers) IN
       Sum([i \in DOMAIN pointers |->
              length(subtract(pointers[i].position, centroid))]) \div Len(pointers)

\* Math.atan2(vector.y, vector.x) for a vector along the x axis
atan2Degrees(vector) == CASE vector.y = 0 -> IF vector.x < 0 THEN 180 ELSE 0

\* calculateTapCount without the test of timeSinceLastTap
calculateTapCountAnyInterval(G, currentTime) ==
  IF Falsy(G.tapState.lastTapTime) \/ Falsy(G.tapState.tapCount) THEN 1
  ELSE G.tapState.tapCount + 1

calculateTapCount(G, currentTime) ==
  IF Falsy(G.tapState.lastTapTime) \/ Falsy(G.tapState.tapCount) THEN 1
  ELSE LET timeSinceLastTap == currentTime - G.tapState.lastTapTime IN
       IF timeSinceLastTap <= maxMultiTapInterval THEN G.tapState.tapCount + 1 ELSE 1

getGesturePhase(G, gestureType, isActive_) ==
  IF gestureType \notin DOMAIN G.activeGestures
  THEN IF isActive_ THEN BEGAN ELSE POSSIBLE
  ELSE IF isActive_
  THEN IF G.activeGestures[gestureType] \in {BEGAN, CHANGED} THEN CHANGED ELSE BEGAN
  ELSE ENDED

cleanupFinishedGestures(G) ==
  [G EXCEPT !.activeGestures =
     [t \in {u \in DOMAIN @ : @[u] \notin {ENDED, CANCELLED}} |-> @[t]]]

recognizeTap(G, pointers, currentTime) ==
  IF Len(pointers) # 1 THEN [G |-> G, gesture |-> NoRecognized]
  ELSE LET pointer == pointers[1] IN
  IF Falsy(G.tapState.startTime)
  THEN [G |-> [G EXCEPT !.tapState.startTime = currentTime,
                        !.tapState.startPosition = pointer.position],
        gesture |-> NoRecognized]
  ELSE LET duration == currentTime - G.tapState.startTime
           movement == length(subtract(pointer.position, G.tapState.startPosition))
       IN IF duration <= tapTimeout /\ movement <= tapRadius
          THEN LET tapCount == calculateTapCount(G, currentTime) IN
               [G |-> [G EXCEPT !.tapState.lastTapTime = currentTime,
                                !.tapState.tapCount = tapCount,
                                !.tapState.startTime = Undefined],
                gesture |-> [type |-> TAP, phase |-> ENDED, timestamp |-> currentTime,
                             duration |-> duration,
                             data |-> [position |-> pointer.position,
                                       tapCount |-> tapCount]]]
          ELSE [G |-> [G EXCEPT !.tapState.startTime = Undefined],
                gesture |-> NoRecognized]

recognizeLongPress(G, pointers, currentTime) ==
  IF Len(pointers) # 1 THEN [G |-> G, gesture |-> NoRecognized]
  ELSE LET pointer == pointers[1] IN
  IF Falsy(G.tapState.startTime) \/ G.tapState.startPosition = Nowhere
  THEN [G |-> G, gesture |-> NoRecognized]
  ELSE LET duration == currentTime - G.tapState.startTime
           movement == length(subtract(pointer.position, G.tapState.startPosition))
       IN IF duration >= longPressTimeout /\ movement <= tapRadius
          THEN [G |-> [G EXCEPT !.tapState.startTime = Undefined],
                gesture |-> [type |-> LONG_PRESS, phase |-> BEGAN,
                             timestamp |-> currentTime, duration |-> duration,
                             data |-> <<>>]]
          ELSE [G |-> G, gesture |-> NoRecognized]

recognizeSwipe(G, pointers, currentTime) ==
  IF Len(pointers) # 1 THEN [G |-> G, gesture |-> NoRecognized]
  ELSE LET pointer == pointers[1] IN
  IF Falsy(G.tapState.startTime) \/ G.tapState.startPosition = Nowhere
  THEN [G |-> G, gesture |-> NoRecognized]
  ELSE LET duration == currentTime - G.tapState.startTime
           displacement == subtract(pointer.position, G.tapState.startPosition)
           distance == length(displacement)
           \* velocity = duration > 0 ? (distance / duration) * 1000 : 0
           fastEnough == duration > 0 /\ distance * 1000 >= swipeMinVelocity * duration
       IN IF fastEnough /\ distance >= swipeMinDistance
          THEN [G |-> [G EXCEPT !.tapState.startTime = Undefined],
                gesture |-> [type |-> SWIPE, phase |-> ENDED, timestamp |-> currentTime,
                             duration |-> duration,
                             data |-> [direction |-> Sign(displacement.x),
                                       velocity |-> [num |-> distance * 1000,
                                                     den |-> duration],
                                       distance |-> distance]]]
          ELSE [G |-> G, gesture |-> NoRecognized]

recognizePan(G, pointers, currentTime) ==
  IF Len(pointers) # 2 THEN [G |-> G, gesture |-> NoRecognized]
  ELSE LET centroid == centroidOf(pointers) IN
  IF G.panState.initialCentroid = Nowhere
  THEN [G |-> [G EXCEPT !.panState = [initialCentroid |-> centroid,
                                      totalTranslation |-> ZERO,
                                      startTime |-> currentTime]],
        gesture |-> NoRecognized]
  ELSE LET translation == subtract(centroid, G.panState.initialCentroid)
           duration == currentTime - G.panState.startTime
           G1 == [G EXCEPT !.panState.totalTranslation = translation]
       IN IF length(translation) >= panThreshold
          THEN [G |-> G1,
                gesture |-> [type |-> PAN,
                             phase |-> getGesturePhase(G1, PAN,
                                                       length(translation) > panThreshold),
                             timestamp |-> currentTime, duration |-> duration,
                             data |-> [translation |-> translation,
                                       totalDistance |-> length(translation)]]]
          ELSE [G |-> G1, gesture |-> NoRecognized]

recognizeZoom(G, pointers, currentTime) ==
  IF Len(pointers) # 2 THEN [G |-> G, gesture |-> NoRecognized]
  ELSE LET currentSpread == calculateSpread(pointers) IN
  IF Falsy(G.zoomState.initialSpread)
  THEN [G |-> [G EXCEPT !.zoomState = [initialSpread |-> currentSpread,
                                       scale |-> [num |-> 1, den |-> 1],
                                       startTime |-> currentTime]],
        gesture |-> NoRecognized]
  ELSE LET initialSpread == G.zoomState.initialSpread
           scale == IF initialSpread > 0
                    THEN [num |-> currentSpread, den |-> initialSpread]
                    ELSE [num |-> 1, den |-> 1]
           \* scaleChange = |scale - 1|, compared with zoomThreshold
           scaleChange == [num |-> Abs(scale.num - scale.den), den |-> scale.den]
           AtLeast == scaleChange.num * zoomThreshold.den >= zoomThreshold.num * scaleChange.den
           Above == scaleChange.num * zoomThreshold.den > zoomThreshold.num * scaleChange.den
           G1 == [G EXCEPT !.zoomState.scale = scale]
       IN IF AtLeast
          THEN [G |-> G1,
                gesture |-> [type |-> ZOOM, phase |-> getGesturePhase(G1, ZOOM, Above),
                             timestamp |-> currentTime,
                             duration |-> currentTime - G.zoomState.startTime,
                             data |-> [scale |-> scale]]]
          ELSE [G |-> G1, gesture |-> NoRecognized]

recognizeRotation(G, pointers, currentTime) ==
  IF Len(pointers) # 2 THEN [G |-> G, gesture |-> NoRecognized]
  ELSE LET vector == subtract(pointers[2].position, pointers[1].position)
           currentAngle == atan2Degrees(vector)
       IN
  IF G.rotationState.initialAngle = Undefined
  THEN [G |-> [G EXCEPT !.rotationState = [initialAngle |-> currentAngle,
                                           lastAngle |-> currentAngle,
                                           totalRotation |-> 0,
                                           startTime |-> currentTime]],
        gesture |-> NoRecognized]
  ELSE LET rawDelta == currentAngle - G.rotationState.lastAngle
           angleDelta == IF rawDelta > 180 THEN rawDelta - 360
                         ELSE IF rawDelta < -180 THEN rawDelta + 360 ELSE rawDelta
           totalRotation == G.rotationState.totalRotation + angleDelta
           G1 == [G EXCEPT !.rotationState.lastAngle = currentAngle,
                           !.rotationState.totalRotation = totalRotation]
       IN IF Abs(totalRotation) >= rotationThreshold
          THEN [G |-> G1,
                gesture |-> [type |-> ROTATE,
                             phase |-> getGesturePhase(G1, ROTATE,
                                                       Abs(totalRotation) > rotationThreshold),
                             timestamp |-> currentTime,
                             duration |-> currentTime - G.rotationState.startTime,
                             data |-> [angle |-> totalRotation]]]
          ELSE [G |-> G1, gesture |-> NoRecognized]

\* recognizeUndo with `phase = GesturePhase.ENDED` as soon as the hold time is reached
recognizeUndoEndsAtOnce(G, pointers, currentTime) ==
  IF Len(pointers) < 3 THEN [G |-> G, gesture |-> NoRecognized]
  ELSE IF Falsy(G.undoState.startTime)
  THEN [G |-> [G EXCEPT !.undoState = [startTime |-> currentTime,
                                       requiredHoldTime |-> undoHoldTime,
                                       isConfirmed |-> FALSE]],
        gesture |-> NoRecognized]
  ELSE LET holdDuration == currentTime - G.undoState.startTime
           requiredHoldTime == G.undoState.requiredHoldTime
           reached == holdDuration >= requiredHoldTime
       IN [G |-> IF reached THEN [G EXCEPT !.undoState.isConfirmed = TRUE] ELSE G,
           gesture |-> [type |-> UNDO, phase |-> IF reached THEN ENDED ELSE BEGAN,
                        timestamp |-> currentTime, duration |-> holdDuration,
                        data |-> [holdDuration |-> holdDuration,
                                  confirmationProgress |->
                                    [num |-> Min(holdDuration, requiredHoldTime),
                                     den |-> requiredHoldTime]]]]

recognizeUndo(G, pointers, currentTime) ==
  IF Len(pointers) < 3 THEN [G |-> G, gesture |-> NoRecognized]
  ELSE IF Falsy(G.undoState.startTime)
  THEN [G |-> [G EXCEPT !.undoState = [startTime |-> currentTime,
                                       requiredHoldTime |-> undoHoldTime,
                                       isConfirmed |-> FALSE]],
        gesture |-> NoRecognized]
  ELSE LET holdDuration == currentTime - G.undoState.startTime
           requiredHoldTime == G.undoState.requiredHoldTime
           reached == holdDuration >= requiredHoldTime
           \* Math.min(1.0, holdDuration / requiredHoldTime)
           confirmationProgress == [num |-> Min(holdDuration, requiredHoldTime),
                                    den |-> requiredHoldTime]
           phase == IF reached
                    THEN IF G.undoState.isConfirmed THEN ENDED ELSE CHANGED
                    ELSE BEGAN
       IN [G |-> IF reached THEN [G EXCEPT !.undoState.isConfirmed = TRUE] ELSE G,
           gesture |-> [type |-> UNDO, phase |-> phase, timestamp |-> currentTime,
                        duration |-> holdDuration,
                        data |-> [holdDuration |-> holdDuration,
                                  confirmationProgress |-> confirmationProgress]]]

\* recognizedGestures.push(gesture) if the recognizer returned one
Push(recognizedGestures, gesture) ==
  IF gesture = NoRecognized THEN recognizedGestures
  ELSE Append(recognizedGestures, gesture)

RECURSIVE SetActive(_, _)
\* for (const gesture of recognizedGestures) activeGestures.set(gesture.type, gesture)
SetActive(activeGestures_, recognizedGestures) ==
  IF recognizedGestures = <<>> THEN activeGestures_
  ELSE SetActive(MapSet(activeGestures_, Head(recognizedGestures).type,
                        Head(recognizedGestures).phase),
                 Tail(recognizedGestures))

\* The result is the recognizer after the call and the array returned.
recognizeGestures(G, pointers, touchMode, currentTime) ==
  LET G0 == cleanupFinishedGestures(G)
      R == IF touchMode = DRAWING /\ Len(pointers) = 1
           THEN LET tap == recognizeTap(G0, pointers, currentTime)
                    longPress == recognizeLongPress(tap.G, pointers, currentTime)
                    swipe == recognizeSwipe(longPress.G, pointers, currentTime)
                IN [G |-> swipe.G,
                    recognized |-> Push(Push(Push(<<>>, tap.gesture), longPress.gesture),
                                        swipe.gesture)]
           ELSE IF touchMode = PAN_ZOOM /\ Len(pointers) = 2
           THEN LET pan == recognizePan(G0, pointers, currentTime)
                    zoom == recognizeZoom(pan.G, pointers, currentTime)
                    rotation == recognizeRotation(zoom.G, pointers, currentTime)
                IN [G |-> rotation.G,
                    recognized |-> Push(Push(Push(<<>>, pan.gesture), zoom.gesture),
                                        rotation.gesture)]
           ELSE IF touchMode = UNDO /\ Len(pointers) >= 3
           THEN LET undo == recognizeUndo(G0, pointers, currentTime)
                IN [G |-> undo.G, recognized |-> Push(<<>>, undo.gesture)]
           ELSE [G |-> G0, recognized |-> <<>>]
  IN [G |-> [R.G EXCEPT !.activeGestures = SetActive(@, R.recognized)],
      recognized |-> R.recognized]

GR_reset(G) ==
  [G EXCEPT !.activeGestures = NoGestures, !.tapState = NoTapState,
            !.panState = NoPanState, !.zoomState = NoZoomState,
            !.rotationState = NoRotationState, !.undoState = NoUndoState]

\* what the calls so far have shown the recognizer.  A run is a maximal
\* sequence of consecutive recognizeGestures calls with the same number of
\* pointers, not interrupted by reset(): pointers is the array of the last
\* call, start the array of the first call of its run and since the time of
\* that call; within says that the pointer of a one-pointer run has stayed in
\* tapRadius of where it started, spreadKept that the spread of a two-pointer
\* run has stayed what it was; seen holds the gestures returned in the run,
\* lastTap the last TAP returned since construction or reset(), tapSince and
\* tapFrom the time and the position of the one-pointer call that a following
\* one-pointer call is measured against (one-pointer calls take turns: one
\* starts a press, the next decides it), undoSince the
\* time of the first call with three pointers since then and undoConfirmed
\* whether a later such call came undoHoldTime or more after it; calls counts
\* the calls of recognizeGestures since construction.
NoTap == [time |-> Undefined, count |-> 0]
NoContact ==
  [pointers |-> <<>>, start |-> <<>>, since |-> 0, within |-> TRUE,
   spreadKept |-> TRUE, seen |-> {}, lastTap |-> NoTap, tapSince |-> Undefined,
   tapFrom |-> Nowhere, undoSince |-> Undefined, undoConfirmed |-> FALSE,
   calls |-> 0]

GestureInit ==
  /\ activeGestures = NoGestures
  /\ tapState = NoTapState
  /\ panState = NoPanState
  /\ zoomState = NoZoomState
  /\ rotationState = NoRotationState
  /\ undoState = NoUndoState
  /\ recognized = <<>>
  /\ contact = NoContact

-----------------------------------------------------------------------------
(* The state as a record, and back *)

World ==
  [currentMode |-> currentMode, currentGesture |-> currentGesture,
   activePointers |-> activePointers, lastUpdateTime |-> lastUpdateTime,
   pmPointers |-> pmPointers, isActive |-> isActive,
   lastEventTime |-> lastEventTime, eventQueue |-> eventQueue,
   isProcessingQueue |-> isProcessingQueue,
   droppedEventCount |-> droppedEventCount, eventCount |-> eventCount,
   activeStroke |-> activeStroke, strokeIdCounter |-> strokeIdCounter,
   activeStrokeId |-> activeStrokeId,
   strokeProcessingTimer |-> strokeProcessingTimer,
   previewUpdateTimer |-> previewUpdateTimer, timers |-> timers,
   options |-> pipelineOptions,
   currentViewportTransform |-> currentViewportTransform,
   strokes |-> strokes, now |-> now,
   emitted |-> <<>>, icLog |-> <<>>, appLog |-> <<>>]

CommitTouch(W) ==
  /\ currentMode' = W.currentMode
  /\ currentGesture' = W.currentGesture
  /\ activePointers' = W.activePointers
  /\ lastUpdateTime' = W.lastUpdateTime
  /\ emitted' = W.emitted

\* how many times a step invoked the application's callback cb
Invocations(log, cb) == Cardinality({i \in 1..Len(log) : log[i].cb = cb})

Commit(W) ==
  /\ CommitTouch(W)
  /\ pmPointers' = W.pmPointers
  /\ isActive' = W.isActive
  /\ lastEventTime' = W.lastEventTime
  /\ eventQueue' = W.eventQueue
  /\ isProcessingQueue' = W.isProcessingQueue
  /\ droppedEventCount' = W.droppedEventCount
  /\ eventCount' = W.eventCount
  /\ activeStroke' = W.activeStroke
  /\ strokeIdCounter' = W.strokeIdCounter
  /\ activeStrokeId' = W.activeStrokeId
  /\ strokeProcessingTimer' = W.strokeProcessingTimer
  /\ previewUpdateTimer' = W.previewUpdateTimer
  /\ timers' = W.timers
  /\ pipelineOptions' = W.options
  /\ currentViewportTransform' = W.currentViewportTransform
  /\ strokes' = W.strokes
  /\ icLog' = W.icLog
  /\ appLog' = W.appLog
  /\ gesturesDelivered' = gesturesDelivered + Invocations(W.appLog, "onGestureRecognized")
  /\ UNCHANGED <<strokeBenchVars, cornerResult, gestureVars>>

Pointer(id, pos) == [id |-> id, position |-> pos, timestamp |-> now]

-----------------------------------------------------------------------------
(* The stand-alone TouchStateManager: any sequence of calls of its public   *)
(* methods, with recording handlers.                                        *)

RestInit ==
  /\ pmPointers = {}
  /\ isActive = FALSE
  /\ lastEventTime = 0
  /\ eventQueue = <<>>
  /\ isProcessingQueue = FALSE
  /\ droppedEventCount = 0
  /\ eventCount = 0
  /\ activeStroke = NoStroke
  /\ strokeIdCounter = 0
  /\ activeStrokeId = NoId
  /\ strokeProcessingTimer = NoTimer
  /\ previewUpdateTimer = NoTimer
  /\ timers = {}
  /\ currentViewportTransform = [pan |-> ZERO]
  /\ icLog = <<>>
  /\ appLog = <<>>
  /\ strokes = <<>>
  /\ gesturesDelivered = 0
  /\ solo = [phase |-> "none", id |-> 0]
  /\ StrokeBenchInit
  /\ GestureInit

TouchInit ==
  /\ currentMode = IDLE
  /\ currentGesture = NoGesture
  /\ activePointers = EmptyMap
  /\ lastUpdateTime = 0
  /\ now = 0
  /\ emitted = <<>>
  /\ lastCall = [op |-> "new", tracked |-> FALSE]
  /\ strokeOptions = DEFAULT_PROCESSING_OPTIONS
  /\ pipelineOptions = DEFAULT_PIPELINE_OPTIONS
  /\ RestInit

RestUnchanged ==
  UNCHANGED <<coordinatorVars, pipelineVars, observationVars, strokeBenchVars,
              cornerResult, gestureVars>>

TouchDown ==
  \E id \in PointerIds, pos \in Positions :
    /\ CommitTouch(TSM_handlePointerDown(World, Pointer(id, pos)))
    /\ lastCall' = [op |-> "down", tracked |-> id \in DOMAIN activePointers]
    /\ UNCHANGED now
    /\ RestUnchanged

TouchMove ==
  \E id \in PointerIds, pos \in Positions :
    /\ CommitTouch(TSM_handlePointerMove(World, Pointer(id, pos)))
    /\ lastCall' = [op |-> "move", tracked |-> id \in DOMAIN activePointers]
    /\ UNCHANGED now
    /\ RestUnchanged

TouchUp ==
  \E id \in PointerIds, pos \in Positions :
    /\ CommitTouch(TSM_handlePointerUp(World, Pointer(id, pos)))
    /\ lastCall' = [op |-> "up", tracked |-> id \in DOMAIN activePointers]
    /\ UNCHANGED now
    /\ RestUnchanged

TouchCancel ==
  \E id \in PointerIds, pos \in Positions :
    /\ CommitTouch(TSM_handlePointerCancel(World, Pointer(id, pos)))
    /\ lastCall' = [op |-> "cancel", tracked |-> id \in DOMAIN activePointers]
    /\ UNCHANGED now
    /\ RestUnchanged

TouchReset ==
  /\ CommitTouch(TSM_reset(World))
  /\ lastCall' = [op |-> "reset", tracked |-> FALSE]
  /\ UNCHANGED now
  /\ RestUnchanged

TouchTick ==
  /\ now < MaxTouchTime
  /\ now' = now + 1
  /\ emitted' = <<>>
  /\ lastCall' = [op |-> "tick", tracked |-> FALSE]
  /\ UNCHANGED touchVars
  /\ RestUnchanged

TouchNext ==
  \/ TouchDown
  \/ TouchMove
  \/ TouchUp
  \/ TouchCancel
  \/ TouchReset
  \/ TouchTick

SpecTouch == TouchInit /\ [][TouchNext]_vars

-----------------------------------------------------------------------------
(* The InputPipeline with its InputCoordinator, PointerEventManager,         *)
(* TouchStateManager and StrokeProcessor: DOM pointer events, the public     *)
(* methods activate, deactivate and reset, the animation-frame callback,     *)
(* the two timeouts and the clock.                                           *)

Init ==
  /\ currentMode = IDLE
  /\ currentGesture = NoGesture
  /\ activePointers = EmptyMap
  /\ lastUpdateTime = 0
  /\ now = 0
  /\ emitted = <<>>
  /\ lastCall = [op |-> "new"]
  /\ strokeOptions = DEFAULT_PROCESSING_OPTIONS
  /\ pipelineOptions = DEFAULT_PIPELINE_OPTIONS
  /\ RestInit

\* steps are cut where a counter would pass its bound
WithinBounds(W) ==
  /\ W.strokeIdCounter <= MaxStrokes
  /\ W.droppedEventCount <= MaxDropped
  /\ W.eventCount <= MaxEvents

\* whether the throttle interval has passed since the last event handled at once
IntervalElapsed == (now - lastEventTime) * maxEventsPerSecond >= 1000

Void == [phase |-> "void", id |-> 0]

PointerDown ==
  \E id \in ScreenPointers \ pmPointers, pos \in ScreenPositions :
    LET W == PEM_handlePointerDown(World, Pointer(id, pos)) IN
    /\ isActive
    /\ WithinBounds(W)
    /\ Commit(W)
    /\ lastCall' = [op |-> "down"]
    /\ solo' = IF solo.phase = "none" THEN [phase |-> "down", id |-> id] ELSE Void
    /\ UNCHANGED now

PointerMove ==
  \E id \in pmPointers, pos \in ScreenPositions :
    LET W == PEM_handlePointerMove(World, Pointer(id, pos)) IN
    /\ isActive
    /\ WithinBounds(W)
    /\ Commit(W)
    /\ lastCall' = [op |-> "move"]
    /\ solo' = IF solo.phase \in {"down", "moved"} /\ solo.id = id
               THEN [phase |-> "moved", id |-> id] ELSE Void
    /\ UNCHANGED now

PointerUp ==
  \E id \in pmPointers, pos \in ScreenPositions :
    LET W == PEM_handlePointerUp(World, Pointer(id, pos)) IN
    /\ isActive
    /\ WithinBounds(W)
    /\ Commit(W)
    /\ lastCall' = [op |-> "up"]
    /\ solo' = IF solo.phase = "moved" /\ solo.id = id
               THEN [phase |-> "up", id |-> id] ELSE Void
    /\ UNCHANGED now

PointerCancel ==
  \E id \in pmPointers, pos \in ScreenPositions :
    LET W == PEM_handlePointerCancel(World, Pointer(id, pos)) IN
    /\ isActive
    /\ WithinBounds(W)
    /\ Commit(W)
    /\ lastCall' = [op |-> "cancel"]
    /\ solo' = Void
    /\ UNCHANGED now

AnimationFrame ==
  LET W == AnimationFrameCallback(World) IN
  /\ isProcessingQueue
  /\ WithinBounds(W)
  /\ Commit(W)
  /\ lastCall' = [op |-> "frame"]
  /\ UNCHANGED <<now, solo>>

StrokeTimerFires ==
  \E t \in timers :
    /\ t.kind = "stroke"
    /\ now >= t.due
    /\ Commit(processCompletedStroke([World EXCEPT !.timers = @ \ {t}]))
    /\ lastCall' = [op |-> "strokeTimer", stroke |-> t.stroke]
    /\ UNCHANGED <<now, solo>>

PreviewTimerFires ==
  \E t \in timers :
    /\ t.kind = "preview"
    /\ now >= t.due
    /\ Commit([updateStrokePreview([World EXCEPT !.timers = @ \ {t}])
                 EXCEPT !.previewUpdateTimer = NoTimer])
    /\ lastCall' = [op |-> "previewTimer"]
    /\ UNCHANGED <<now, solo>>

Activate ==
  /\ Commit(IP_activate(World))
  /\ lastCall' = [op |-> "activate"]
  /\ solo' = IF solo.phase = "none" /\ ~isActive THEN solo ELSE Void
  /\ UNCHANGED now

Deactivate ==
  /\ Commit(IP_deactivate(World))
  /\ lastCall' = [op |-> "deactivate"]
  /\ solo' = Void
  /\ UNCHANGED now

Reset ==
  /\ Commit(IP_reset(World))
  /\ lastCall' = [op |-> "reset"]
  /\ solo' = Void
  /\ UNCHANGED now

Tick ==
  \E d \in TimeSteps :
    /\ now + d <= MaxTime
    /\ now' = now + d
    /\ emitted' = <<>>
    /\ icLog' = <<>>
    /\ appLog' = <<>>
    /\ lastCall' = [op |-> "tick"]
    /\ UNCHANGED <<touchVars, coordinatorVars, pipelineVars, strokes, solo,
                   gesturesDelivered, strokeBenchVars, cornerResult, gestureVars>>

Next ==
  \/ PointerDown
  \/ PointerMove
  \/ PointerUp
  \/ PointerCancel
  \/ AnimationFrame
  \/ StrokeTimerFires
  \/ PreviewTimerFires
  \/ Activate
  \/ Deactivate
  \/ Reset
  \/ Tick

Spec == Init /\ [][Next]_vars

-----------------------------------------------------------------------------
(* The pipeline under one finger                                             *)
(*                                                                           *)
(* The same pipeline, with the same handlers, given the events of the one    *)
(* pointer TheFinger only: it goes down and up, and may go down again, so    *)
(* that up to MaxSoloStrokes strokes are started in one behaviour.           *)

TheFinger == 1

WithinSoloBounds(W) ==
  /\ W.strokeIdCounter <= MaxSoloStrokes
  /\ W.droppedEventCount <= MaxDropped
  /\ W.eventCount <= MaxEvents

FingerDown ==
  \E pos \in ScreenPositions :
    LET W == PEM_handlePointerDown(World, Pointer(TheFinger, pos)) IN
    /\ isActive
    /\ TheFinger \notin pmPointers
    /\ WithinSoloBounds(W)
    /\ Commit(W)
    /\ lastCall' = [op |-> "down"]
    /\ solo' = IF solo.phase = "none" THEN [phase |-> "down", id |-> TheFinger] ELSE Void
    /\ UNCHANGED now

FingerUp ==
  \E pos \in ScreenPositions :
    LET W == PEM_handlePointerUp(World, Pointer(TheFinger, pos)) IN
    /\ isActive
    /\ TheFinger \in pmPointers
    /\ WithinSoloBounds(W)
    /\ Commit(W)
    /\ lastCall' = [op |-> "up"]
    /\ solo' = IF solo.phase = "moved" /\ solo.id = TheFinger
               THEN [phase |-> "up", id |-> TheFinger] ELSE Void
    /\ UNCHANGED now

FingerFrame ==
  LET W == AnimationFrameCallback(World) IN
  /\ isProcessingQueue
  /\ WithinSoloBounds(W)
  /\ Commit(W)
  /\ lastCall' = [op |-> "frame"]
  /\ UNCHANGED <<now, solo>>

FingerNext ==
  \/ FingerDown
  \/ FingerUp
  \/ FingerFrame
  \/ StrokeTimerFires
  \/ PreviewTimerFires
  \/ Activate
  \/ Reset
  \/ Tick

SpecFinger == Init /\ [][FingerNext]_vars

-----------------------------------------------------------------------------
(* The pipeline constructed with enableUndoGesture: false                    *)

InitUndoDisabled ==
  /\ currentMode = IDLE
  /\ currentGesture = NoGesture
  /\ activePointers = EmptyMap
  /\ lastUpdateTime = 0
  /\ now = 0
  /\ emitted = <<>>
  /\ lastCall = [op |-> "new"]
  /\ strokeOptions = DEFAULT_PROCESSING_OPTIONS
  /\ pipelineOptions = PipelineConstructorOptions([enableUndoGesture |-> FALSE])
  /\ RestInit

SpecUndoDisabled == InitUndoDisabled /\ [][Next]_vars

-----------------------------------------------------------------------------
(* The pipeline under two fingers that move                                  *)
(*                                                                           *)
(* The same pipeline given the events of the pointers PanFingers, which go   *)
(* down, move and go up at any of Positions, so that the centroid of a       *)
(* two-pointer gesture is displaced.                                         *)

PanFingers == {1, 2}

PanDown ==
  \E id \in PanFingers \ pmPointers, pos \in Positions :
    LET W == PEM_handlePointerDown(World, Pointer(id, pos)) IN
    /\ isActive
    /\ WithinBounds(W)
    /\ Commit(W)
    /\ lastCall' = [op |-> "down"]
    /\ solo' = Void
    /\ UNCHANGED now

PanMove ==
  \E id \in PanFingers \cap pmPointers, pos \in Positions :
    LET W == PEM_handlePointerMove(World, Pointer(id, pos)) IN
    /\ isActive
    /\ WithinBounds(W)
    /\ Commit(W)
    /\ lastCall' = [op |-> "move"]
    /\ solo' = Void
    /\ UNCHANGED now

PanUp ==
  \E id \in PanFingers \cap pmPointers, pos \in Positions :
    LET W == PEM_handlePointerUp(World, Pointer(id, pos)) IN
    /\ isActive
    /\ WithinBounds(W)
    /\ Commit(W)
    /\ lastCall' = [op |-> "up"]
    /\ solo' = Void
    /\ UNCHANGED now

PanNext ==
  \/ PanDown
  \/ PanMove
  \/ PanUp
  \/ AnimationFrame
  \/ StrokeTimerFires
  \/ PreviewTimerFires
  \/ Activate
  \/ Tick

SpecPan == Init /\ [][PanNext]_vars

-----------------------------------------------------------------------------
(* Claims about the stand-alone TouchStateManager (SpecTouch) *)

IsTouchCall(ops) == lastCall'.op \in ops
NotesOf(log, h) == SelectSeq(log, LAMBDA n : n.h = h)
PointerCount == Cardinality(DOMAIN activePointers)

\* the mode table of the claim, written out
ModeOfCount(n) ==
  IF n = 0 THEN "idle"
  ELSE IF n = 1 THEN "drawing"
  ELSE IF n = 2 THEN "pan_zoom"
  ELSE IF n = 3 THEN "undo"
  ELSE "multi_touch"

ModeIsPure == currentMode = ModeOfCount(PointerCount)

\* C1: after any sequence of down, move, up, cancel and reset calls the touch
\* mode is the fixed function of the number of tracked pointers (0 idle,
\* 1 drawing, 2 pan_zoom, 3 undo, more multi_touch), and a move call never
\* changes the mode.
C1_ModeIsFunctionOfCount ==
  /\ ModeIsPure
  /\ [][/\ ModeIsPure'
        /\ (IsTouchCall({"move"}) => currentMode' = currentMode)]_vars

C1_Witness ==
  /\ lastCall.op = "move"
  /\ currentMode = "multi_touch"
  /\ PointerCount = 5
  /\ emitted # <<>>

\* C3: a down or up that changes the mode first reports the live gesture
\* through onGestureEnded (state ENDED) and then, unless the new mode is idle,
\* reports a new gesture of the new mode's type through onGestureStarted
\* (state BEGAN); a down, or a move or up of a tracked pointer, that leaves
\* the mode unchanged reports the live gesture through onGestureUpdated with
\* state CHANGED and the centroid and count of the current pointer set.
C3_ModeChangeStep ==
  LET ends == NotesOf(emitted', "onGestureEnded")
      starts == NotesOf(emitted', "onGestureStarted")
      gestureNotes == SelectSeq(emitted', LAMBDA n : n.h # "onTouchModeChanged")
  IN /\ NotesOf(emitted', "onGestureUpdated") = <<>>
     /\ NotesOf(emitted', "onGestureCancelled") = <<>>
     /\ gestureNotes = ends \o starts
     /\ IF currentGesture.type # "none"
        THEN /\ Len(ends) = 1
             /\ ends[1].gesture.type = currentGesture.type
             /\ ends[1].gesture.startTime = currentGesture.startTime
             /\ ends[1].gesture.state = "ended"
        ELSE ends = <<>>
     /\ IF currentMode' # "idle"
        THEN /\ Len(starts) = 1
             /\ starts[1].gesture.type = currentMode'
             /\ starts[1].gesture.state = "began"
             /\ currentGesture' = starts[1].gesture
        ELSE starts = <<>> /\ currentGesture' = NoGesture

C3_SameModeStep ==
  LET n == Cardinality(DOMAIN activePointers')
      total == SumPositions(activePointers', DOMAIN activePointers')
  IN /\ Len(emitted') = 1
     /\ emitted'[1].h = "onGestureUpdated"
     /\ emitted'[1].gesture = currentGesture'
     /\ currentGesture'.state = "changed"
     /\ currentGesture'.type = currentGesture.type
     /\ currentGesture'.pointerCount = n
     /\ currentGesture'.centroid.x * n = total.x
     /\ currentGesture'.centroid.y * n = total.y

C3_GestureLifecycle ==
  [][/\ (IsTouchCall({"down", "up"}) /\ currentMode' # currentMode)
          => C3_ModeChangeStep
     /\ (/\ \/ IsTouchCall({"down"})
            \/ IsTouchCall({"move", "up"}) /\ lastCall'.tracked
         /\ currentMode' = currentMode)
          => C3_SameModeStep]_vars

\* an up of a tracked pointer that left the mode (multi_touch) unchanged
C3_Witness ==
  /\ lastCall.op = "up"
  /\ currentMode = "multi_touch"
  /\ Len(emitted) = 1
  /\ emitted[1].h = "onGestureUpdated"
  /\ emitted[1].gesture.pointerCount = 4
  /\ emitted[1].gesture.centroid # ZERO

\* C7: a move, up or cancel whose pointer id is not in the active-pointer map
\* fires no handler and leaves the mode, the pointer map and the live gesture
\* unchanged.
C7_UntrackedIsIgnored ==
  [][(IsTouchCall({"move", "up", "cancel"}) /\ ~lastCall'.tracked)
       => /\ emitted' = <<>>
          /\ UNCHANGED <<currentMode, activePointers, currentGesture>>]_vars

\* C8: every down, up or cancel that changes the touch mode fires
\* onTouchModeChanged exactly once, with the mode before and the mode after.
C8_OneModeNotification ==
  [][(IsTouchCall({"down", "up", "cancel"}) /\ currentMode' # currentMode)
       => NotesOf(emitted', "onTouchModeChanged")
            = <<[h |-> "onTouchModeChanged",
                 previousMode |-> currentMode, currentMode |-> currentMode']>>]_vars

C8_Witness ==
  /\ lastCall.op = "cancel"
  /\ currentMode = "pan_zoom"
  /\ NotesOf(emitted, "onTouchModeChanged")
       = <<[h |-> "onTouchModeChanged",
            previousMode |-> "undo", currentMode |-> "pan_zoom"]>>

\* C9: there is never more than one live gesture of a type, and no single
\* pointer event emits both the termination (ended or cancelled) of a gesture
\* and the start of a new gesture of that same type.
C9_NoEndAndStartOfSameType ==
  \A i, j \in DOMAIN emitted :
    (emitted[i].h \in {"onGestureEnded", "onGestureCancelled"}
       /\ emitted[j].h = "onGestureStarted")
      => emitted[i].gesture.type # emitted[j].gesture.type

-----------------------------------------------------------------------------
(* Claims about the InputPipeline and its InputCoordinator (Spec) *)

DomOps == {"down", "move", "up", "cancel"}
CompletionCallbacks == {"onDrawingEnded", "onPanEnded", "onZoomEnded", "onUndoTriggered"}

StrokeTimers == {t \in timers : t.kind = "stroke"}

\* C2: after a single-pointer interaction (down, moves, up) with no further
\* input and no event dropped, once the queued events have been handled and
\* the stroke-processing timeout has run, the stroke started at the down has
\* been reported completed exactly once and never cancelled.
C2_SoloStrokeCompletes ==
  (/\ solo.phase = "up"
   /\ droppedEventCount = 0
   /\ eventQueue = <<>>
   /\ ~isProcessingQueue
   /\ StrokeTimers = {})
  => /\ strokeIdCounter = 1
     /\ strokes[1].completed = 1
     /\ strokes[1].cancelled = 0

\* C4: a gesture the TouchStateManager reports cancelled (which it does only
\* in handlePointerCancel) has state CANCELLED, is not also reported ended,
\* and the coordinator invokes no completion callback for it.
C4_CancelledIsNotCompleted ==
  \A i \in DOMAIN emitted :
    emitted[i].h = "onGestureCancelled" =>
      /\ emitted[i].gesture.state = CANCELLED
      /\ \A k \in DOMAIN emitted :
           ~(/\ emitted[k].h = "onGestureEnded"
             /\ emitted[k].gesture = [emitted[i].gesture EXCEPT !.state = ENDED])
      /\ \A j \in DOMAIN icLog :
           ~(/\ icLog[j].cb \in CompletionCallbacks
             /\ icLog[j].gesture = emitted[i].gesture)

\* C5: a stroke the pipeline gave up before completing it (cancelActiveStroke
\* on a mode switch or an error, cleanup on reset or deactivate) has never been
\* through endStroke, is never reported completed, and its points are no
\* longer buffered in the StrokeProcessor.
C5_GivenUpStrokeIsDiscarded ==
  \A s \in DOMAIN strokes :
    strokes[s].givenUp =>
      /\ strokes[s].endStroke = 0
      /\ strokes[s].completed = 0
      /\ activeStroke.id # s

\* the fields of the TouchStateManager in a record W
TouchOf(W) == <<W.currentMode, W.currentGesture, W.activePointers, W.lastUpdateTime>>

\* the pointer event (op, id) fits what the step did to the PointerEventManager
FitsStep(op, id) ==
  CASE op = "down" -> id \notin pmPointers /\ pmPointers' = pmPointers \cup {id}
    [] op = "move" -> id \in pmPointers /\ pmPointers' = pmPointers
    [] op \in {"up", "cancel"} -> id \in pmPointers /\ pmPointers' = pmPointers \ {id}

AppliedInHandler(event) ==
  /\ touchVars' = TouchOf(RunEventHandler(World, event))
  /\ eventQueue' = eventQueue
  /\ droppedEventCount' = droppedEventCount
  /\ lastEventTime' = now

Deferred(event) ==
  /\ UNCHANGED touchVars
  /\ eventQueue' = Append(eventQueue, event)
  /\ isProcessingQueue'
  /\ droppedEventCount' = droppedEventCount

Dropped(event) ==
  /\ UNCHANGED <<touchVars, eventQueue, isProcessingQueue>>
  /\ droppedEventCount' = droppedEventCount + 1

C10_UndoOnlyAfterHold ==
  /\ \A j \in DOMAIN icLog :
       icLog[j].cb = "onUndoTriggered" =>
         /\ icLog[j].gesture.type = UNDO
         /\ icLog[j].gesture.duration >= UNDO_HOLD_TIME
  /\ (\E k \in DOMAIN appLog : appLog[k].cb = "onUndoRequested")
       => \E j \in DOMAIN icLog :
            /\ icLog[j].cb = "onUndoTriggered"
            /\ icLog[j].gesture.duration >= UNDO_HOLD_TIME

-----------------------------------------------------------------------------
(* The StrokeProcessor on its own, with the StrokeToGeometryConverter fed    *)
(* as processCompletedStroke feeds it: any sequence of startStroke,          *)
(* addPoint, endStroke and cancelStroke, for points given along the y axis   *)
(* in the direction of growing y.                                            *)
(* processedStroke and fitResults are what the last step returned.           *)

\* the options given to `new StrokeProcessor(options)`: none, or a
\* maxPointsPerStroke of 3
ConstructorOptions ==
  {DEFAULT_PROCESSING_OPTIONS, [DEFAULT_PROCESSING_OPTIONS EXCEPT !.maxPointsPerStroke = 3]}

\* the y coordinates of the points given to the stand-alone StrokeProcessor
StrokeYs == {Px(0), Px(25), Px(50), Px(75), Px(100)}

StrokeWorld ==
  [activeStroke |-> activeStroke, strokeIdCounter |-> strokeIdCounter,
   strokes |-> strokes, processedStroke |-> NoProcessed, thrown |-> FALSE,
   options |-> strokeOptions]

CommitStroke(S) ==
  /\ activeStroke' = S.activeStroke
  /\ strokeIdCounter' = S.strokeIdCounter
  /\ strokes' = S.strokes
  /\ processedStroke' = S.processedStroke
  /\ thrown' = S.thrown
  /\ strokeOptions' = S.options
  /\ UNCHANGED <<touchVars, coordinatorVars, activeStrokeId, strokeProcessingTimer,
                 previewUpdateTimer, timers, pipelineOptions,
                 currentViewportTransform, icLog, appLog,
                 gesturesDelivered, now,
                 emitted, cornerResult, gestureVars>>

StrokeInit ==
  /\ currentMode = IDLE
  /\ currentGesture = NoGesture
  /\ activePointers = EmptyMap
  /\ lastUpdateTime = 0
  /\ now = 0
  /\ emitted = <<>>
  /\ lastCall = [op |-> "new"]
  /\ strokeOptions \in ConstructorOptions
  /\ pipelineOptions = DEFAULT_PIPELINE_OPTIONS
  /\ RestInit

StartStroke ==
  \E y \in StrokeYs :
    /\ strokeIdCounter < MaxBenchStrokes
    /\ CommitStroke(SP_startStroke(StrokeWorld, y))
    /\ fitResults' = <<>>
    /\ solo' = <<y>>
    /\ lastCall' = [op |-> "startStroke"]

AddPoint ==
  \E y \in StrokeYs :
    /\ activeStroke # NoStroke =>
         /\ Len(activeStroke.points) < MaxRawPoints
         /\ y >= solo[Len(solo)]
    /\ CommitStroke(SP_addPoint(StrokeWorld, y))
    /\ fitResults' = <<>>
    /\ solo' = IF activeStroke = NoStroke
                  \/ Len(activeStroke.points) >= strokeOptions.maxPointsPerStroke
               THEN solo ELSE Append(solo, y)
    /\ lastCall' = [op |-> "addPoint", point |-> y]

EndStroke ==
  LET S == SP_endStroke(StrokeWorld) IN
  /\ CommitStroke(S)
  /\ fitResults' = IF S.thrown THEN <<>> ELSE convertStroke(S.processedStroke)
  /\ lastCall' = [op |-> "endStroke"]
  /\ UNCHANGED solo

CancelStroke ==
  /\ CommitStroke(SP_cancelStroke(StrokeWorld))
  /\ fitResults' = <<>>
  /\ lastCall' = [op |-> "cancelStroke"]
  /\ UNCHANGED solo

StrokeNext ==
  \/ StartStroke
  \/ AddPoint
  \/ EndStroke
  \/ CancelStroke

SpecStroke == StrokeInit /\ [][StrokeNext]_vars

-----------------------------------------------------------------------------
(* The GestureRecognizer on its own: a caller that passes it, at times of    *)
(* its choosing, the pointers that are down and the touch mode that          *)
(* TouchStateManager.determineTouchMode gives for their number, and that     *)
(* calls reset().                                                            *)

\* a pointer on the x axis
PointerAt(id, x) == [id |-> id, position |-> [x |-> x, y |-> 0]]

\* the pointer arrays passed to recognizeGestures
GesturePointers ==
  {<<>>}
  \cup {<<PointerAt(1, x)>> : x \in {0, 10, 60}}
  \cup {<<PointerAt(1, 0), PointerAt(2, 10)>>, <<PointerAt(1, 50), PointerAt(2, 60)>>,
        <<PointerAt(1, 10), PointerAt(2, 20)>>, <<PointerAt(1, 0), PointerAt(2, 60)>>,
        <<PointerAt(1, 10), PointerAt(2, 0)>>}
  \cup {<<PointerAt(1, 0), PointerAt(2, 10), PointerAt(3, 60)>>}

\* the time between one call of recognizeGestures and the next
GestureTimeSteps == {200, 400}

GestureWorld ==
  [activeGestures |-> activeGestures, tapState |-> tapState, panState |-> panState,
   zoomState |-> zoomState, rotationState |-> rotationState, undoState |-> undoState]

CommitGesture(G) ==
  /\ activeGestures' = G.activeGestures
  /\ tapState' = G.tapState
  /\ panState' = G.panState
  /\ zoomState' = G.zoomState
  /\ rotationState' = G.rotationState
  /\ undoState' = G.undoState
  /\ UNCHANGED <<touchVars, coordinatorVars, pipelineVars, observationVars, emitted,
                 strokeBenchVars, cornerResult>>

\* what contact.seen keeps of a gesture: type, phase and, of a PAN, the
\* translation
Summary(gesture) ==
  <<gesture.type, gesture.phase,
    IF gesture.type = PAN THEN gesture.data.translation ELSE ZERO>>

Returned(recognizedGestures, type) ==
  {i \in DOMAIN recognizedGestures : recognizedGestures[i].type = type}

Observe(c, pointers, recognizedGestures, time) ==
  LET sameRun == c.pointers # <<>> /\ Len(pointers) = Len(c.pointers)
      start == IF sameRun THEN c.start ELSE pointers
      summaries == {Summary(recognizedGestures[i]) : i \in DOMAIN recognizedGestures}
      taps == Returned(recognizedGestures, TAP)
      stays == Len(pointers) = 1 =>
                 length(subtract(pointers[1].position, start[1].position)) <= tapRadius
      keeps == Len(pointers) = 2 => calculateSpread(pointers) = calculateSpread(start)
  IN [pointers |-> pointers,
      start |-> start,
      since |-> IF sameRun THEN c.since ELSE time,
      within |-> IF sameRun THEN c.within /\ stays ELSE TRUE,
      spreadKept |-> IF sameRun THEN c.spreadKept /\ keeps ELSE TRUE,
      seen |-> IF sameRun THEN c.seen \cup summaries ELSE summaries,
      lastTap |-> IF taps = {} THEN c.lastTap
                  ELSE LET i == CHOOSE j \in taps : TRUE IN
                       [time |-> time, count |-> recognizedGestures[i].data.tapCount],
      tapSince |-> IF Len(pointers) # 1 THEN c.tapSince
                   ELSE IF c.tapSince = Undefined THEN time ELSE Undefined,
      tapFrom |-> IF Len(pointers) # 1 THEN c.tapFrom
                  ELSE IF c.tapSince = Undefined THEN pointers[1].position
                  ELSE Nowhere,
      undoSince |-> IF c.undoSince = Undefined /\ Len(pointers) >= 3 THEN time
                    ELSE c.undoSince,
      undoConfirmed |-> \/ c.undoConfirmed
                        \/ /\ c.undoSince # Undefined
                           /\ Len(pointers) >= 3
                           /\ time - c.undoSince >= undoHoldTime,
      calls |-> c.calls + 1]

GestureSpecInit ==
  /\ currentMode = IDLE
  /\ currentGesture = NoGesture
  /\ activePointers = EmptyMap
  /\ lastUpdateTime = 0
  /\ now = 0
  /\ emitted = <<>>
  /\ lastCall = [op |-> "new"]
  /\ strokeOptions = DEFAULT_PROCESSING_OPTIONS
  /\ pipelineOptions = DEFAULT_PIPELINE_OPTIONS
  /\ RestInit

Recognize ==
  \E pointers \in GesturePointers, step \in GestureTimeSteps :
    LET time == now + step
        touchMode == determineTouchMode([activePointers |-> pointers])
        R == recognizeGestures(GestureWorld, pointers, touchMode, time)
    IN /\ time <= MaxGestureTime
       /\ contact.calls < MaxGestureCalls
       /\ now' = time
       /\ CommitGesture(R.G)
       /\ recognized' = R.recognized
       /\ contact' = Observe(contact, pointers, R.recognized, time)
       /\ lastCall' = [op |-> "recognizeGestures"]

GestureReset ==
  /\ CommitGesture(GR_reset(GestureWorld))
  /\ recognized' = <<>>
  /\ contact' = [NoContact EXCEPT !.calls = contact.calls]
  /\ lastCall' = [op |-> "reset"]
  /\ UNCHANGED now

GestureNext ==
  \/ Recognize
  \/ GestureReset

SpecGesture == GestureSpecInit /\ [][GestureNext]_vars

-----------------------------------------------------------------------------
(* Claims about the StrokeProcessor and the StrokeToGeometryConverter *)

\* The points given are evenly spaced from (0, from) to (0, to), in order.
StraightStroke(given, from, to) ==
  /\ Len(given) >= 2
  /\ given[1] = from
  /\ given[Len(given)] = to
  /\ \A k \in 2..Len(given) : given[k] - given[k - 1] = given[2] - given[1]

\* lineThreshold of DEFAULT_CONVERSION_OPTIONS, the tolerance of a line fit
lineThreshold == Px(3)

\* the step ended a stroke whose points were given evenly spaced from (0,0)
\* to (0,100), and converted what endStroke returned
StraightStrokeConverted ==
  /\ lastCall.op = "endStroke"
  /\ ~thrown
  /\ StraightStroke(solo, Px(0), Px(100))

\* C11: a noise-free straight stroke from (0,0) to (0,100), ended and given
\* to convertStroke, yields exactly one result, a line whose endpoints are
\* within tolerance of (0,0) and (0,100).
C11_StraightStrokeIsOneLine ==
  StraightStrokeConverted =>
    /\ Len(fitResults) = 1
    /\ fitResults[1].type = LINE
    /\ distanceTo(fitResults[1].start, Px(0)) <= lineThreshold
    /\ distanceTo(fitResults[1].end, Px(100)) <= lineThreshold

\* what the code does with such a stroke: every resampled point with three
\* points on either side is a corner, and no segment is fitted
C11_StraightStrokeIsNoLine ==
  StraightStrokeConverted =>
    /\ fitResults = <<>>
    /\ Len(processedStroke.cornerIndices) = Len(processedStroke.resampledPoints) - 6

\* the step ended a stroke whose points were given evenly spaced along the
\* y axis, a positive distance apart
StraightPolylineProcessed ==
  /\ lastCall.op = "endStroke"
  /\ ~thrown
  /\ Len(solo) >= 2
  /\ solo[2] > solo[1]
  /\ StraightStroke(solo, solo[1], solo[Len(solo)])

\* C12: for a noise-free straight polyline (collinear, evenly spaced points)
\* CornerDetector.detectCorners finds no corner, and the cornerIndices that
\* processStroke attaches to the processed stroke are empty.
C12_StraightPolylineHasNoCorners ==
  StraightPolylineProcessed =>
    /\ CD_detectCorners(solo) = <<>>
    /\ CD_detectCorners(processedStroke.resampledPoints) = <<>>
    /\ processedStroke.cornerIndices = <<>>

\* C20: addPoint and endStroke throw exactly when no stroke is active, also
\* after endStroke or cancelStroke has finished the stroke; the call that
\* throws returns nothing and leaves the processor without an active stroke
\* and otherwise as it was; no stroke is processed by endStroke twice.
C20_NoStrokeNoProcessing ==
  /\ [](\A id \in DOMAIN strokes : strokes[id].endStroke <= 1)
  /\ [][/\ thrown' <=> (activeStroke = NoStroke /\ lastCall'.op \in {"addPoint", "endStroke"})
        /\ thrown' => /\ activeStroke' = NoStroke
                      /\ strokeIdCounter' = strokeIdCounter
                      /\ strokes' = strokes
                      /\ processedStroke' = NoProcessed
                      /\ fitResults' = <<>>]_vars

\* endStroke has thrown for want of an active stroke after an endStroke
\* that processed the last stroke started
C20_Witness ==
  /\ thrown
  /\ lastCall.op = "endStroke"
  /\ activeStroke = NoStroke
  /\ strokeIdCounter = MaxBenchStrokes
  /\ strokes[strokeIdCounter].endStroke = 1
  /\ strokes[strokeIdCounter].cancelled = 0

-----------------------------------------------------------------------------
(* Claims about the GestureRecognizer *)

ContinuousGestures == {PAN, ZOOM, ROTATE, UNDO}

\* the phases that may follow the phase last returned for a gesture type
\* ("none" when none was returned since construction or reset()): a new
\* instance starts possible or began, a begun one changes or terminates
MayFollow(last) ==
  IF last \in {BEGAN, CHANGED} THEN {CHANGED, ENDED, CANCELLED, FAILED}
  ELSE IF last = POSSIBLE THEN {POSSIBLE, BEGAN, FAILED}
  ELSE {POSSIBLE, BEGAN}

\* C13: the phases returned for a continuous gesture type (pan, zoom,
\* rotate, undo) over successive calls follow the life-cycle: BEGAN at most
\* once per instance, CHANGED only after BEGAN, a terminal phase only after
\* BEGAN and once, and after it nothing but the start of a new instance.
C13_ContinuousLifecycle ==
  [][lastCall'.op = "recognizeGestures" =>
       \A i \in DOMAIN recognized' :
         recognized'[i].type \in ContinuousGestures =>
           LET type == recognized'[i].type
               last == IF type \in DOMAIN activeGestures THEN activeGestures[type]
                       ELSE "none"
           IN recognized'[i].phase \in MayFollow(last)]_vars

\* the pointer of a one-pointer run of calls, and how far it is from where
\* the run started
OnePointerRun == lastCall.op = "recognizeGestures" /\ Len(contact.pointers) = 1

Displacement ==
  length(subtract(contact.pointers[1].position, contact.start[1].position))

SeenOfType(type) == {summary \in contact.seen : summary[1] = type}

\* C14: once the calls for one pointer that stayed within tapRadius of its
\* start span longPressTimeout or more, one of them has returned a
\* LONG_PRESS with phase BEGAN and none of them a TAP.
C14_HeldPointerIsLongPress ==
  (OnePointerRun /\ contact.within /\ now - contact.since >= longPressTimeout)
    => /\ \E summary \in SeenOfType(LONG_PRESS) : summary[2] = BEGAN
       /\ SeenOfType(TAP) = {}

\* C15: once the one pointer of a run of calls is swipeMinDistance or more
\* from its start, at swipeMinVelocity (pixels per second) or more over the
\* time of the run, one of the calls has returned a SWIPE with phase ENDED.
C15_FastPointerIsSwipe ==
  (/\ OnePointerRun
   /\ now > contact.since
   /\ Displacement >= swipeMinDistance
   /\ Displacement * 1000 >= swipeMinVelocity * (now - contact.since))
    => \E summary \in SeenOfType(SWIPE) : summary[2] = ENDED

\* a run of calls with two pointers that the recognizer tracked from its
\* first call, in which the spread never changed and the centroid is now
\* 50 px to the right of where it started
PanOfFifty ==
  /\ lastCall.op = "recognizeGestures"
  /\ Len(contact.pointers) = 2
  /\ contact.spreadKept
  /\ panState.initialCentroid = centroidOf(contact.start)
  /\ zoomState.initialSpread = calculateSpread(contact.start)
  /\ subtract(centroidOf(contact.pointers), centroidOf(contact.start))
       = [x |-> 50, y |-> 0]

\* C16: when a run of calls with two pointers whose centroid moved 50 px to
\* the right with the spread unchanged is over (the next call has another
\* number of pointers, or reset() is called), a PAN with phase ENDED and a
\* translation of about (50,0) has been returned, and no ZOOM.
C16_PanOfFiftyEnds ==
  [][(PanOfFifty /\ (lastCall'.op = "reset" \/ Len(contact'.pointers) # 2))
       => /\ \E summary \in SeenOfType(PAN)
                   \cup {Summary(recognized'[i]) : i \in Returned(recognized', PAN)} :
               /\ summary[2] = ENDED
               /\ summary[3].x \in 49..51
               /\ summary[3].y = 0
          /\ SeenOfType(ZOOM) = {}]_vars

\* confirmationProgress for a hold of so many milliseconds
ProgressOf(hold) == [num |-> Min(hold, undoHoldTime), den |-> undoHoldTime]

C18_UndoOnlyAfterContinuousHold ==
  \A i \in Returned(recognized, UNDO) :
    (\/ recognized[i].phase = ENDED
     \/ recognized[i].data.confirmationProgress.num
          = recognized[i].data.confirmationProgress.den)
      => /\ Len(contact.pointers) >= 3
         /\ now - contact.since >= undoHoldTime

\* the tapCount of a TAP returned at the given time, after the TAP last
\* returned
NextTapCount(lastTap, time) ==
  IF lastTap.time # Undefined /\ time - lastTap.time <= maxMultiTapInterval
  THEN lastTap.count + 1
  ELSE 1

-----------------------------------------------------------------------------
(* More claims about the StrokeProcessor *)

\* smoothingRadius of applyRealTimeSmoothing, the smoothing window
smoothingRadius == 2

\* C21: an addPoint that adds a point leaves the new point as it was given
\* and every point fewer than the smoothing window (2 positions) behind it as
\* it was before the call; only points 2 or more positions behind may change.
C21_SmoothingStaysBehind ==
  [][(/\ lastCall'.op = "addPoint"
      /\ activeStroke # NoStroke
      /\ Len(activeStroke'.points) = Len(activeStroke.points) + 1)
       => LET n == Len(activeStroke'.points) IN
          /\ activeStroke'.points[n] = solo'[n]
          /\ \A i \in 1..(n - 1) :
               n - i < smoothingRadius => activeStroke'.points[i] = activeStroke.points[i]]_vars

\* C22: the buffer of the active stroke never holds more than
\* maxPointsPerStroke points, and an addPoint that finds it holding that many
\* does not throw and leaves the active stroke, its buffer included, as it
\* was.
C22_CapDropsSample ==
  /\ [](activeStroke # NoStroke
          => Len(activeStroke.points) <= strokeOptions.maxPointsPerStroke)
  /\ [][(/\ lastCall'.op = "addPoint"
          /\ activeStroke # NoStroke
          /\ Len(activeStroke.points) >= strokeOptions.maxPointsPerStroke)
           => (~thrown' /\ activeStroke' = activeStroke)]_vars

\* a sample was dropped: the point of the last addPoint is not the last one
\* taken into the stroke, which holds maxPointsPerStroke points
C22_Witness ==
  /\ lastCall.op = "addPoint"
  /\ activeStroke # NoStroke
  /\ ~thrown
  /\ Len(activeStroke.points) = strokeOptions.maxPointsPerStroke
  /\ lastCall.point # solo[Len(solo)]

-----------------------------------------------------------------------------
(* Claims about the InputPipeline as a whole *)

\* C31: a pipeline constructed with enableUndoGesture false never invokes
\* onUndoRequested.
C31_NoUndoWhenDisabled ==
  ~pipelineOptions.enableUndoGesture
    => \A k \in DOMAIN appLog : appLog[k].cb # "onUndoRequested"

\* a callback of handleDrawingEnded that window.setTimeout still holds
StrokeTimerPending == \E t \in timers : t.kind = "stroke"

\* C28: after InputPipeline.reset(), whatever the state before, the touch mode
\* is IDLE, no pointer is tracked, no gesture is live, no stroke is active, the
\* event queue is empty and no stroke-processing timer remains pending.
C28_ResetLeavesNothing ==
  lastCall.op = "reset" =>
    /\ currentMode = IDLE
    /\ activePointers = EmptyMap
    /\ currentGesture = NoGesture
    /\ activeStroke = NoStroke
    /\ activeStrokeId = NoId
    /\ eventQueue = <<>>
    /\ strokeProcessingTimer = NoTimer
    /\ ~StrokeTimerPending

\* One pointer went down, moved and came up, with no other input since
\* activate: a press of at most tapTimeout that stays within tapRadius (every
\* DOM event of the model is at the one screen position), which is the
\* recognition rule of the tap.
TapPerformed == solo.phase = "up" /\ now <= tapTimeout

\* no event is queued, no animation frame is requested and no timeout is
\* pending: nothing more happens without further input
Quiescent == eventQueue = <<>> /\ ~isProcessingQueue /\ timers = {}

\* C29: a gesture recognized during input reaches the application through
\* onGestureRecognized: once pointer input has satisfied a gesture's rule (here
\* the tap's) and everything the input scheduled has run, the callback has
\* been invoked.
C29_GestureIsDelivered == (TapPerformed /\ Quiescent) => gesturesDelivered > 0

-----------------------------------------------------------------------------
(* CornerDetector, for points in the plane.  A Vec2[] is held as the record  *)
(* [pitch, at]: its points lie on a square lattice, pitch is the length of a *)
(* lattice step in thousandths of a pixel and at[k] the lattice coordinates  *)
(* of point k - 1, so that the same polyline can be given at any density.    *)
(* Lengths are in thousandths of a lattice step or of a pixel, curvatures in *)
(* thousandths of 1/pixel, angles in thousandths of a radian, confidences    *)
(* and qualities in thousandths.                                             *)

RECURSIVE SqrtBetween(_, _, _)
\* the largest r of lo..hi with r * r <= n
SqrtBetween(n, lo, hi) ==
  IF lo = hi THEN lo
  ELSE LET mid == (lo + hi + 1) \div 2 IN
       IF mid * mid <= n THEN SqrtBetween(n, mid, hi) ELSE SqrtBetween(n, lo, mid - 1)

\* Math.sqrt(n), rounded down
Sqrt(n) == SqrtBetween(n, 0, 46340)

\* 1000 * Math.sqrt(n), with as many digits as a 32-bit product allows
Sqrt1000(n) ==
  IF n <= 2147 THEN Sqrt(n * 1000000)
  ELSE IF n <= 214748 THEN 10 * Sqrt(n * 10000)
  ELSE 100 * Sqrt(n * 100)

dot(a, b) == a.x * b.x + a.y * b.y
cross(a, b) == a.x * b.y - a.y * b.x
lengthSquared(v) == dot(v, v)
\* a.distanceTo(b) in thousandths of a lattice step
StepsBetween(a, b) == Sqrt1000(lengthSquared(subtract(b, a)))
\* a.distanceTo(b) in thousandths of a pixel
distanceToXY(points, a, b) == (StepsBetween(a, b) * points.pitch) \div 1000

\* 4 * area / (a * b * c) = 2 |cross| / (a * b * c), divided side by side
calculateCircumcircleCurvatureXY(points, p1, p2, p3) ==
  LET a == StepsBetween(p2, p3)
      b == StepsBetween(p1, p3)
      c == StepsBetween(p1, p2)
      crossProduct == cross(subtract(p2, p1), subtract(p3, p1))
  IN IF crossProduct = 0 \/ a = 0 \/ b = 0 \/ c = 0 THEN 0
     ELSE LET overC == (Abs(crossProduct) * 1000000) \div c
              overB == (overC * 10000) \div b
              perStep == (overB * 200000) \div a
          IN perStep \div points.pitch

calculateCurvaturesXY(points) ==
  LET windowSize == smoothingWindow
      n == Len(points.at)
  IN [k \in 1..n |->
        LET i == k - 1 IN
        IF i < windowSize \/ i >= n - windowSize THEN 0
        ELSE calculateCircumcircleCurvatureXY(points, At(points.at, i - windowSize),
                                              At(points.at, i),
                                              At(points.at, i + windowSize))]

\* Math.acos of the cosine dotProduct / sqrt(n1 * n2), for the angles between
\* lattice vectors that are multiples of a quarter of pi
acos(dotProduct, n1, n2) ==
  CASE dotProduct = 0 -> 1571
    [] dotProduct > 0 /\ dotProduct * dotProduct = n1 * n2 -> 0
    [] dotProduct < 0 /\ dotProduct * dotProduct = n1 * n2 -> 3142
    [] dotProduct > 0 /\ 2 * dotProduct * dotProduct = n1 * n2 -> 785
    [] dotProduct < 0 /\ 2 * dotProduct * dotProduct = n1 * n2 -> 2356

\* the normalized of the zero vector is the zero vector
calculateAngleCurvature(points, index, windowSize) ==
  IF index < windowSize \/ index >= Len(points.at) - windowSize THEN 0
  ELSE LET p1 == At(points.at, index - windowSize)
           p2 == At(points.at, index)
           p3 == At(points.at, index + windowSize)
           v1 == subtract(p2, p1)
           v2 == subtract(p3, p2)
           angle == IF lengthSquared(v1) = 0 \/ lengthSquared(v2) = 0 THEN 1571
                    ELSE acos(dot(v1, v2), lengthSquared(v1), lengthSquared(v2))
       IN 3142 - angle

minSegmentLengthOfCorners == Px(15)

isValidCornerPosition(points, existingCorners, candidateIndex) ==
  LET minDistance == minSegmentLengthOfCorners IN
  \A k \in DOMAIN existingCorners :
    ~(distanceToXY(points, At(points.at, candidateIndex),
                   At(points.at, existingCorners[k])) < minDistance)

RECURSIVE CandidatesFrom(_, _, _, _, _)
\* the loop of findCornerCandidates from index i on
CandidatesFrom(points, curvatures, threshold, i, candidates) ==
  IF i >= Len(curvatures) - 1 THEN candidates
  ELSE LET curvature == At(curvatures, i) IN
       CandidatesFrom(points, curvatures, threshold, i + 1,
                      IF /\ curvature > threshold
                         /\ curvature > At(curvatures, i - 1)
                         /\ curvature > At(curvatures, i + 1)
                         /\ isValidCornerPosition(points, candidates, i)
                      THEN Append(candidates, i) ELSE candidates)

findCornerCandidatesXY(points, curvatures) ==
  CandidatesFrom(points, curvatures, calculateAdaptiveThreshold(curvatures), 1, <<>>)

RECURSIVE FilterFrom(_, _, _, _)
\* the loop of filterNearbyCorners from position i (1-based here) on
FilterFrom(points, corners, i, filtered) ==
  IF i > Len(corners) THEN filtered
  ELSE FilterFrom(points, corners, i + 1,
                  IF isValidCornerPosition(points, filtered, corners[i])
                  THEN Append(filtered, corners[i]) ELSE filtered)

filterNearbyCorners(points, corners) ==
  IF Len(corners) <= 1 THEN corners
  ELSE FilterFrom(points, corners, 2, <<corners[1]>>)

\* the first index of the search range with the greatest curvature, if that
\* is greater than 0
refineCornerPosition(points, initialIndex) ==
  LET searchRadius == 3
      n == Len(points.at)
      start == Max(0, initialIndex - searchRadius)
      end == Min(n - 1, initialIndex + searchRadius)
      curvature(i) == calculateCircumcircleCurvatureXY(points, At(points.at, Max(0, i - 2)),
                                                       At(points.at, i),
                                                       At(points.at, Min(n - 1, i + 2)))
      best == CHOOSE i \in start..end :
                /\ \A j \in start..end : curvature(j) <= curvature(i)
                /\ \A j \in start..(i - 1) : curvature(j) < curvature(i)
  IN IF curvature(best) > 0 THEN best ELSE initialIndex

RECURSIVE SortedFrom(_)
\* [...set].sort((a, b) => a - b)
SortedFrom(set) ==
  IF set = {} THEN <<>>
  ELSE LET least == CHOOSE a \in set : \A b \in set : a <= b
       IN <<least>> \o SortedFrom(set \ {least})

refineCornersXY(points, candidates) ==
  LET filtered == filterNearbyCorners(points, candidates)
      refined == [k \in DOMAIN filtered |-> refineCornerPosition(points, filtered[k])]
  IN SortedFrom({refined[k] : k \in DOMAIN refined})

calculateCornerConfidence(points, curvatures, cornerIndex) ==
  IF cornerIndex >= Len(curvatures) THEN 0
  ELSE
    LET curvature == At(curvatures, cornerIndex)
        maxCurvature == SortedAt(curvatures, Len(curvatures) - 1)
        curvatureScore == IF maxCurvature > 0 THEN (curvature * 1000) \div maxCurvature ELSE 0
        windowSize == 5
        window == Indices(Max(0, cornerIndex - windowSize),
                          Min(Len(curvatures) - 1, cornerIndex + windowSize))
        count == Len(window)
        localSum == Sum([k \in DOMAIN window |-> At(curvatures, window[k])])
        \* prominenceScore / 2 = curvature / (2 * localAvg)
        halfProminence == IF localSum > 0 THEN (curvature * count * 1000) \div (2 * localSum)
                          ELSE 500
        angleCurvature == calculateAngleCurvature(points, cornerIndex, 2)
        consistencyScore == (Min(curvature, angleCurvature) * 1000)
                              \div Max(Max(curvature, angleCurvature), 1)
        confidence == (((curvatureScore * Min(1000, halfProminence)) \div 1000)
                         * consistencyScore) \div 1000
    IN Max(0, Min(1000, confidence))

calculateConfidenceScores(points, curvatures, corners) ==
  [i \in DOMAIN corners |-> calculateCornerConfidence(points, curvatures, corners[i])]

\* maxDeviation / totalDistance = the greatest |cross| / totalDistance squared
calculateLinearityScore(points, startIndex, endIndex) ==
  IF endIndex <= startIndex + 1 THEN 1000
  ELSE LET startPoint == At(points.at, startIndex)
           endPoint == At(points.at, endIndex)
           lineVector == subtract(endPoint, startPoint)
           deviation(i) == Abs(cross(subtract(At(points.at, i), startPoint), lineVector))
           maxDeviation == CHOOSE d \in {deviation(i) : i \in (startIndex + 1)..(endIndex - 1)} :
                             \A i \in (startIndex + 1)..(endIndex - 1) : deviation(i) <= d
       IN IF lengthSquared(lineVector) = 0 THEN 1000
          ELSE Max(0, 1000 - (maxDeviation * 10000) \div lengthSquared(lineVector))

analyzeSegment(points, startIndex, endIndex) ==
  IF endIndex <= startIndex + 1
  THEN [startIndex |-> startIndex, endIndex |-> endIndex, type |-> "line", quality |-> 1000]
  ELSE LET linearityScore == calculateLinearityScore(points, startIndex, endIndex)
           isLine == linearityScore > 800
       IN [startIndex |-> startIndex, endIndex |-> endIndex,
           type |-> IF isLine THEN "line" ELSE "curve",
           quality |-> IF isLine THEN linearityScore ELSE 1000 - linearityScore]

RECURSIVE SegmentsFrom(_, _, _, _)
\* the loop of generateSegments over the corners, then its final segment
SegmentsFrom(points, corners, lastIndex, segments) ==
  IF corners = <<>>
  THEN IF lastIndex < Len(points.at) - 1
       THEN Append(segments, analyzeSegment(points, lastIndex, Len(points.at) - 1))
       ELSE segments
  ELSE LET cornerIndex == Head(corners) IN
       SegmentsFrom(points, Tail(corners), cornerIndex,
                    IF cornerIndex > lastIndex
                    THEN Append(segments, analyzeSegment(points, lastIndex, cornerIndex))
                    ELSE segments)

generateSegments(points, corners) == SegmentsFrom(points, corners, 0, <<>>)

detectCornersXY(points) ==
  IF Len(points.at) < 3
  THEN [cornerIndices |-> <<>>, curvatures |-> <<>>, confidence |-> <<>>,
        segments |-> IF Len(points.at) >= 2
                     THEN <<[startIndex |-> 0, endIndex |-> Len(points.at) - 1,
                             type |-> "line", quality |-> 1000]>>
                     ELSE <<>>]
  ELSE LET curvatures == calculateCurvaturesXY(points)
           smoothedCurvatures == smoothCurvatures(curvatures)
           candidates == findCornerCandidatesXY(points, smoothedCurvatures)
           refinedCorners == refineCornersXY(points, candidates)
           confidenceScores == calculateConfidenceScores(points, smoothedCurvatures,
                                                         refinedCorners)
           segments == generateSegments(points, refinedCorners)
       IN [cornerIndices |-> refinedCorners, curvatures |-> smoothedCurvatures,
           confidence |-> confidenceScores, segments |-> segments]

-----------------------------------------------------------------------------
(* StrokeToGeometryConverter, for points in the plane: runs of two points,   *)
(* runs whose points all lie on one line, and runs whose ends are less than  *)
(* minSegmentLength apart.  A fit is its type, ends, error (thousandths of a *)
(* pixel) and confidence; an exception that leaves a method is Throws in the  *)
(* place of its result.                                                      *)

ARC == "arc"
CIRCLE == "circle"
Throws == [type |-> "throws"]

\* 1000 * Math.sqrt(num / den)
SqrtOfRatio1000(num, den) ==
  IF num <= 2147 THEN Sqrt((num * 1000000) \div den)
  ELSE IF num <= 214748 THEN 10 * Sqrt((num * 10000) \div den)
  ELSE 100 * Sqrt((num * 100) \div den)

\* isSegmentTooShort with runs of two points let through whatever their length
isSegmentTooShortSparesPairs(points) ==
  IF Len(points.at) < 2 THEN TRUE
  ELSE Len(points.at) > 2
         /\ distanceToXY(points, points.at[1], points.at[Len(points.at)]) < minSegmentLength

isSegmentTooShortXY(points) ==
  IF Len(points.at) < 2 THEN TRUE
  ELSE distanceToXY(points, points.at[1], points.at[Len(points.at)]) < minSegmentLength

OnOneLine(points) ==
  \A k \in DOMAIN points.at :
    cross(subtract(points.at[k], points.at[1]),
          subtract(points.at[Len(points.at)], points.at[1])) = 0

\* LineSegment.distanceToPoint squared, in lattice steps, for a point on the
\* line of the segment: closestPointTo clamps t to [0, 1]
SquaredDistanceAlong(startPoint, endPoint, point) ==
  LET lineVector == subtract(endPoint, startPoint)
      t == dot(subtract(point, startPoint), lineVector)
  IN IF lengthSquared(lineVector) = 0 \/ t < 0 THEN lengthSquared(subtract(point, startPoint))
     ELSE IF t > lengthSquared(lineVector) THEN lengthSquared(subtract(point, endPoint))
     ELSE 0

\* The points of the run lie on the line through its ends, so
\* calculateLinearity finds no deviation and gives 1.
fitLineXY(points) ==
  LET n == Len(points.at)
      startPoint == points.at[1]
      endPoint == points.at[n]
  IN CASE n >= 2 /\ OnOneLine(points) ->
       LET sumSquaredError == Sum([k \in 1..n |->
                                     SquaredDistanceAlong(startPoint, endPoint, points.at[k])])
           error == (SqrtOfRatio1000(sumSquaredError, n) * points.pitch) \div 1000
           linearity == 1000
           confidence == IF error > lineThreshold
                         THEN Max(0, 1000 - ((error - lineThreshold) * 1000) \div lineThreshold)
                         ELSE 1000
       IN [type |-> LINE, start |-> startPoint, end |-> endPoint, error |-> error,
           confidence |-> (confidence * linearity) \div 1000]

\* For collinear start, middle and end ArcSegment.fromThreePoints returns
\* null; calculateArcError then reads distanceToPoint of null, and the
\* TypeError is caught.  First fitArc without its try and catch.
fitArcUncaught(points) ==
  IF Len(points.at) < 3 THEN NoFit
  ELSE LET startPoint == points.at[1]
           middlePoint == At(points.at, Len(points.at) \div 2)
           endPoint == points.at[Len(points.at)]
       IN CASE cross(subtract(middlePoint, startPoint), subtract(endPoint, middlePoint)) = 0 ->
            Throws

fitArcXY(points) ==
  IF Len(points.at) < 3 THEN NoFit
  ELSE LET startPoint == points.at[1]
           middlePoint == At(points.at, Len(points.at) \div 2)
           endPoint == points.at[Len(points.at)]
       IN CASE cross(subtract(middlePoint, startPoint), subtract(endPoint, middlePoint)) = 0 ->
            NoFit

\* the denominator A * C - B * B of fitCircleLeastSquares, in lattice steps
CircleDenominator(points) ==
  LET n == Len(points.at)
      sumX == Sum([k \in 1..n |-> points.at[k].x])
      sumY == Sum([k \in 1..n |-> points.at[k].y])
      sumXX == Sum([k \in 1..n |-> points.at[k].x * points.at[k].x])
      sumYY == Sum([k \in 1..n |-> points.at[k].y * points.at[k].y])
      sumXY == Sum([k \in 1..n |-> points.at[k].x * points.at[k].y])
      A == n * sumXX - sumX * sumX
      B == n * sumXY - sumX * sumY
      C == n * sumYY - sumY * sumY
  IN A * C - B * B

\* closureDistance > averageSpacing * 3, both multiplied by points.length - 1
NotClosed(points) ==
  LET n == Len(points.at)
      closureDistance == distanceToXY(points, points.at[1], points.at[n])
      totalDistance == Sum([k \in 1..(n - 1) |->
                              distanceToXY(points, points.at[k], points.at[k + 1])])
  IN closureDistance * (n - 1) > totalDistance * 3

fitCircleXY(points) ==
  IF Len(points.at) < 5 THEN NoFit
  ELSE CASE NotClosed(points) -> NoFit
         [] ~NotClosed(points) /\ CircleDenominator(points) = 0 -> NoFit

\* the array fittingResults of fitSegment
fittingResults(points) ==
  LET lineFit == fitLineXY(points)
      circleFit == IF Len(points.at) >= 5 THEN fitCircleXY(points) ELSE NoFit
      arcFit == IF Len(points.at) >= 3 THEN fitArcXY(points) ELSE NoFit
  IN SelectSeq(<<lineFit, circleFit, arcFit>>, LAMBDA fit : fit # NoFit)

calculateFitScore(result) ==
  LET complexityBonus == CASE result.type = LINE -> 100
                           [] result.type = ARC -> 50
                           [] result.type = CIRCLE -> 0
      errorPenalty == Min(200, result.error \div 10)
  IN Max(0, Min(1000, result.confidence + complexityBonus - errorPenalty))

RECURSIVE BestFrom(_, _, _)
\* the loop of selectBestFit from results[i] on
BestFrom(results, i, bestResult) ==
  IF i > Len(results) THEN bestResult
  ELSE BestFrom(results, i + 1,
                IF calculateFitScore(results[i]) > calculateFitScore(bestResult)
                THEN results[i] ELSE bestResult)

selectBestFit(results) ==
  IF Len(results) = 1 THEN results[1] ELSE BestFrom(results, 2, results[1])

fitSegmentXY(points) ==
  IF Len(points.at) < 2 THEN NoFit
  ELSE IF isSegmentTooShortXY(points) THEN NoFit
  ELSE LET results == fittingResults(points) IN
       IF \E k \in DOMAIN results : results[k] = Throws THEN Throws
       ELSE IF Len(results) = 0 THEN NoFit
       ELSE selectBestFit(results)

\* points.slice(from, to + 1)
SliceXY(points, from, to) ==
  [points EXCEPT !.at = SubSeq(@, from + 1, Min(to + 1, Len(@)))]

\* the push of convertStroke
AcceptXY(results, segmentResult) ==
  IF segmentResult = Throws THEN Append(results, Throws)
  ELSE Accept(results, segmentResult)

RECURSIVE FitBetweenCornersXY(_, _, _, _)
\* the loop of convertStroke over the corners, then its final segment
FitBetweenCornersXY(points, corners, segmentStart, results) ==
  IF corners = <<>>
  THEN IF segmentStart < Len(points.at) - 1
       THEN AcceptXY(results, fitSegmentXY(SliceXY(points, segmentStart, Len(points.at) - 1)))
       ELSE results
  ELSE LET cornerIndex == Head(corners) IN
       FitBetweenCornersXY(points, Tail(corners), cornerIndex,
                           IF cornerIndex > segmentStart
                           THEN AcceptXY(results,
                                         fitSegmentXY(SliceXY(points, segmentStart,
                                                              cornerIndex)))
                           ELSE results)

convertStrokeXY(stroke) ==
  LET points == stroke.resampledPoints IN
  IF Len(points.at) < 2 THEN <<>>
  ELSE LET cornerResultOfStroke == detectCornersXY(points)
           corners == mergeCornerDetection(stroke.cornerIndices,
                                           cornerResultOfStroke.cornerIndices)
           results == FitBetweenCornersXY(points, corners, 0, <<>>)
       \* an exception ends the conversion
       IN IF \E k \in DOMAIN results : results[k] = Throws THEN <<Throws>> ELSE results

-----------------------------------------------------------------------------
(* The CornerDetector and the StrokeToGeometryConverter on their own: a      *)
(* caller that passes point arrays to detectCorners and processed strokes    *)
(* (their resampledPoints and cornerIndices) to convertStroke.  Neither      *)
(* method reads or writes anything a call leaves behind, so a behaviour is   *)
(* one call on a new detector or converter.                                  *)

Origin == [x |-> 0, y |-> 0]
MinArm == 6
\* the second and third arm of the polyline with two corners: its corners are
\* more than 15 pixels apart at a pitch of 0.3 pixels
LongArm == 52
ShortArm == 8

\* n points after from, one lattice step (dx, dy) apart
Arm(n, from, dx, dy) == [k \in 1..n |-> [x |-> from.x + k * dx, y |-> from.y + k * dy]]
StraightPath(n) == <<Origin>> \o Arm(n, Origin, 1, 0)
\* a steps along x, then b steps along y: one right angle
LPath(a, b) == StraightPath(a) \o Arm(b, [x |-> a, y |-> 0], 0, 1)
\* then c steps back along x: two right angles
UPath(a, b, c) == LPath(a, b) \o Arm(c, [x |-> a, y |-> b], -1, 0)

DetectorPaths ==
  {<<>>, <<Origin>>}
    \cup {StraightPath(n) : n \in 1..MaxArm}
    \cup {LPath(a, b) : a \in MinArm..MaxArm, b \in MinArm..MaxArm}
    \cup {UPath(ShortArm, LongArm, ShortArm)}

\* lattice steps of 0.1, 0.25, 0.3 and 2 pixels
DetectorPitches == {100, 250, 300, 2000}

DetectorInputs == {[pitch |-> p, at |-> path] : p \in DetectorPitches, path \in DetectorPaths}

\* the twelve lattice points of the circle of radius 5 steps about Origin
CirclePoints ==
  <<[x |-> 5, y |-> 0], [x |-> 4, y |-> 3], [x |-> 3, y |-> 4],
    [x |-> 0, y |-> 5], [x |-> -3, y |-> 4], [x |-> -4, y |-> 3],
    [x |-> -5, y |-> 0], [x |-> -4, y |-> -3], [x |-> -3, y |-> -4],
    [x |-> 0, y |-> -5], [x |-> 3, y |-> -4], [x |-> 4, y |-> -3]>>

\* once round the circle from its point first, n points
CirclePath(first, n) == [k \in 1..n |-> CirclePoints[((first + k - 2) % 12) + 1]]

\* points at the places ts[k] along the direction dir
Along(ts, dir) == [k \in DOMAIN ts |-> [x |-> ts[k] * dir.x, y |-> ts[k] * dir.y]]

Directions == {[x |-> 1, y |-> 0], [x |-> 0, y |-> 1], [x |-> 1, y |-> 1]}

\* there and part of the way back
Returning == {<<0, 5, 10, 6, 4>>, <<0, 5, 10, 6, 4, 9>>, <<0, 4, 8, 4, 0>>}

CornersGiven == {<<>>, <<1>>, <<2>>, <<4>>, <<2, 4>>}

\* the processed strokes given to convertStroke: two-point strokes, strokes
\* along one line, and closed or nearly closed strokes round a circle of
\* radius 25 pixels
ConverterStrokes ==
  {[resampledPoints |-> [pitch |-> p, at |-> <<Origin, [x |-> dx, y |-> dy]>>],
    cornerIndices |-> c] :
      p \in {1000, 5000}, dx \in 0..MaxOffset, dy \in 0..MaxOffset, c \in {<<>>, <<1>>}}
    \cup {[resampledPoints |-> [pitch |-> 5000, at |-> Along(ts, dir)], cornerIndices |-> c] :
            ts \in {Indices(0, n) : n \in 2..MaxRun} \cup Returning, dir \in Directions,
            c \in CornersGiven}
    \cup {[resampledPoints |-> [pitch |-> 5000, at |-> CirclePath(first, n)],
           cornerIndices |-> <<>>] : first \in 1..12, n \in {12, 13}}

DetectCorners ==
  \E points \in DetectorInputs :
    /\ lastCall.op = "new"
    /\ cornerResult' = detectCornersXY(points)
    /\ lastCall' = [op |-> "detectCorners", points |-> points]
    /\ fitResults' = <<>>
    /\ thrown' = FALSE
    /\ UNCHANGED <<touchVars, coordinatorVars, pipelineVars, observationVars, now, emitted,
                   processedStroke, strokeOptions, gestureVars>>

ConvertStroke ==
  \E stroke \in ConverterStrokes :
    \E results \in {convertStrokeXY(stroke)} :
    /\ lastCall.op = "new"
    /\ fitResults' = IF results = <<Throws>> THEN <<>> ELSE results
    /\ thrown' = (results = <<Throws>>)
    /\ lastCall' = [op |-> "convertStroke", stroke |-> stroke]
    /\ cornerResult' = NoCornerResult
    /\ UNCHANGED <<touchVars, coordinatorVars, pipelineVars, observationVars, now, emitted,
                   processedStroke, strokeOptions, gestureVars>>

GeometryNext ==
  \/ DetectCorners
  \/ ConvertStroke

SpecGeometry == Init /\ [][GeometryNext]_vars

-----------------------------------------------------------------------------
(* Claims about the CornerDetector *)

\* the points of the last detectCorners call
Given == lastCall.points.at

\* C26: for an input of fewer than 3 points (0, 1 or 2) detectCorners returns
\* no corners and exactly one run, labelled line.
C26_FewPointsOneLineRun ==
  (lastCall.op = "detectCorners" /\ Len(Given) < 3) =>
    /\ cornerResult.cornerIndices = <<>>
    /\ Len(cornerResult.segments) = 1
    /\ cornerResult.segments[1].type = "line"

\* 0, the corners and n - 1, in this order
Delimiters(result, n) == <<0>> \o result.cornerIndices \o <<n - 1>>

\* C27: every result of detectCorners is well-formed: the corner indices are
\* strictly increasing and within [0, n - 1], there is one confidence in
\* [0, 1] for each corner, and the runs are the consecutive index intervals
\* delimited by 0, the corners and n - 1: they cover every point, and adjacent
\* runs share their boundary corner only.
C27_ResultIsWellFormed ==
  lastCall.op = "detectCorners" =>
    LET n == Len(Given)
        corners == cornerResult.cornerIndices
        runs == cornerResult.segments
        delimiters == Delimiters(cornerResult, n)
    IN /\ \A k \in DOMAIN corners : corners[k] \in 0..(n - 1)
       /\ \A k \in 1..(Len(corners) - 1) : corners[k] < corners[k + 1]
       /\ Len(cornerResult.confidence) = Len(corners)
       /\ \A k \in DOMAIN corners : cornerResult.confidence[k] \in 0..1000
       /\ \A i \in 0..(n - 1) :
            \E k \in DOMAIN runs : runs[k].startIndex <= i /\ i <= runs[k].endIndex
       /\ n >= 1 =>
            /\ Len(runs) = Len(delimiters) - 1
            /\ \A k \in DOMAIN runs :
                 runs[k].startIndex = delimiters[k] /\ runs[k].endIndex = delimiters[k + 1]

\* DEFAULT_CORNER_OPTIONS.confidenceThreshold
confidenceThresholdOfCorners == 600

\* C30: every corner that detectCorners returns has a confidence of at least
\* options.confidenceThreshold.
C30_CornersAreConfident ==
  lastCall.op = "detectCorners" =>
    \A k \in DOMAIN cornerResult.cornerIndices :
      cornerResult.confidence[k] >= confidenceThresholdOfCorners

-----------------------------------------------------------------------------
(* Claims about the StrokeToGeometryConverter in the plane *)

\* the resampledPoints of the stroke of the last convertStroke call
Converted == lastCall.stroke.resampledPoints

\* the stroke converted is one run of exactly two distinct points
TwoPointRun ==
  /\ lastCall.op = "convertStroke"
  /\ Len(Converted.at) = 2
  /\ Converted.at[1] # Converted.at[2]

\* the one result is the line between the two points, with error 0
IsExactLine(results) ==
  /\ Len(results) = 1
  /\ results[1].type = LINE
  /\ results[1].start = Converted.at[1]
  /\ results[1].end = Converted.at[2]
  /\ results[1].error = 0

\* C23 as stated: for every run of exactly two distinct points the converter
\* returns a line result for the run whose error is 0.
C23_TwoPointRunIsLine == TwoPointRun => IsExactLine(fitResults)

\* C23: a run of exactly two distinct points that are at least
\* minSegmentLength apart is returned as a line with error 0 and confidence 1;
\* for two points less than minSegmentLength apart nothing is returned.
C23_LongTwoPointRunIsLine ==
  TwoPointRun =>
    IF distanceToXY(Converted, Converted.at[1], Converted.at[2]) >= minSegmentLength
    THEN IsExactLine(fitResults) /\ fitResults[1].confidence = 1000
    ELSE fitResults = <<>>

\* two points 20 pixels apart have been converted; two points 5 pixels apart
\* are among the strokes as well
C23_Witness ==
  /\ TwoPointRun
  /\ distanceToXY(Converted, Converted.at[1], Converted.at[2]) = minSegmentLength
  /\ IsExactLine(fitResults)

\* the stroke converted goes once round the circle of CirclePoints and ends on
\* its first point or on the point before it, and no corner is given
ClosedCircleStroke ==
  /\ lastCall.op = "convertStroke"
  /\ Len(Converted.at) >= 12
  /\ \A k \in DOMAIN Converted.at : lengthSquared(Converted.at[k]) = 25
  /\ lastCall.stroke.cornerIndices = <<>>

\* C24: for a closed stroke of N >= 5 noise-free points on a circle with
\* centre C and radius R the converter returns a circle result with centre
\* about C, radius about R, error about 0 and confidence about 1 (here within
\* a tenth of a pixel and a tenth).
C24_ClosedCircleIsCircle ==
  ClosedCircleStroke =>
    /\ Len(fitResults) = 1
    /\ fitResults[1].type = CIRCLE
    /\ fitResults[1].center = Origin
    /\ Abs(fitResults[1].radius - 5 * Converted.pitch) <= 100
    /\ fitResults[1].error <= 100
    /\ fitResults[1].confidence >= 900

\* the runs convertStroke cuts the stroke into, as pairs of indices
RunsOf(stroke) ==
  LET n == Len(stroke.resampledPoints.at)
      corners == mergeCornerDetection(stroke.cornerIndices,
                                      detectCornersXY(stroke.resampledPoints).cornerIndices)
      delimiters == <<0>> \o corners \o <<n - 1>>
  IN SelectSeq([k \in 1..(Len(delimiters) - 1) |-> <<delimiters[k], delimiters[k + 1]>>],
               LAMBDA run : run[1] < run[2])

\* a run whose first, middle and last point are collinear: no arc through them
Degenerate(points) ==
  /\ Len(points.at) >= 3
  /\ ~isSegmentTooShortXY(points)
  /\ cross(subtract(At(points.at, Len(points.at) \div 2), points.at[1]),
           subtract(points.at[Len(points.at)], points.at[1])) = 0

\* C25: convertStroke does not throw on degenerate geometry: for a run with
\* collinear first, middle and last point (no arc) or a singular circle
\* system only that candidate is left out, the line is still fitted, and the
\* other runs are still processed: every run whose line has the confidence
\* asked for is among the results.
C25_DegenerateRunsAreSkipped ==
  lastCall.op = "convertStroke" =>
    /\ ~thrown
    /\ \A k \in DOMAIN RunsOf(lastCall.stroke) :
         LET run == SliceXY(Converted, RunsOf(lastCall.stroke)[k][1],
                            RunsOf(lastCall.stroke)[k][2])
         IN Degenerate(run) =>
              /\ \A j \in DOMAIN fittingResults(run) :
                   fittingResults(run)[j].type \notin {ARC, CIRCLE}
              /\ \E j \in DOMAIN fittingResults(run) : fittingResults(run)[j].type = LINE
              /\ fitLineXY(run).confidence >= confidenceThreshold =>
                   \E j \in DOMAIN fitResults :
                     /\ fitResults[j].type = LINE
                     /\ fitResults[j].start = run.at[1]
                     /\ fitResults[j].end = run.at[Len(run.at)]

\* a stroke along one line was converted whose first run, closed enough for
\* the circle fit, has a singular circle system and no arc, and whose line is
\* rejected; the run after it is returned as a line
C25_Witness ==
  /\ lastCall.op = "convertStroke"
  /\ Len(RunsOf(lastCall.stroke)) = 2
  /\ LET first == SliceXY(Converted, RunsOf(lastCall.stroke)[1][1],
                          RunsOf(lastCall.stroke)[1][2])
     IN /\ Degenerate(first)
        /\ Len(first.at) >= 5
        /\ ~NotClosed(first)
        /\ CircleDenominator(first) = 0
        /\ fitLineXY(first).confidence < confidenceThreshold
  /\ Len(fitResults) = 1
  /\ fitResults[1].type = LINE
  /\ fitResults[1].start = At(Converted.at, RunsOf(lastCall.stroke)[2][1])

-----------------------------------------------------------------------------
(* Claims about the state of the TouchStateManager between calls (SpecTouch) *)

\* C32: between events a live gesture exists exactly when the touch mode is
\* not IDLE, its type is the touch mode, and its pointerCount is the number of
\* tracked pointers.
C32_GestureMatchesMode ==
  /\ (currentGesture # NoGesture) <=> (currentMode # IDLE)
  /\ currentGesture # NoGesture
       => /\ currentGesture.type = currentMode
          /\ currentGesture.pointerCount = PointerCount

\* a fifth pointer has joined a multi-touch gesture that began with four
C32_Witness ==
  /\ lastCall.op = "down"
  /\ currentMode = MULTI_TOUCH
  /\ PointerCount = 5
  /\ currentGesture.state = CHANGED
  /\ currentGesture.pointerCount = 5

ModeNotes(log) == NotesOf(log, "onTouchModeChanged")

\* C33: the onTouchModeChanged notifications form a chain: each has
\* previousMode # currentMode, the previousMode of each is the currentMode of
\* the one before it (IDLE for the first), and the currentMode of the last one
\* fired is the touch mode, also after reset.  Stated step by step: the
\* notifications of a call lead from the mode before the call to the mode
\* after it.
C33_ModeNotificationsChain ==
  [][LET notes == ModeNotes(emitted') IN
     /\ \A k \in DOMAIN notes : notes[k].previousMode # notes[k].currentMode
     /\ \A k \in 2..Len(notes) : notes[k].previousMode = notes[k - 1].currentMode
     /\ IF notes = <<>> THEN currentMode' = currentMode
        ELSE /\ notes[1].previousMode = currentMode
             /\ notes[Len(notes)].currentMode = currentMode']_vars

-----------------------------------------------------------------------------
(* Claims about the order and the completeness of what the InputCoordinator  *)
(* gives the TouchStateManager (Spec)                                        *)

PointerOps == {"down", "move", "up", "cancel"}

\* C34: pointer events are applied to the TouchStateManager in the order of
\* their arrival: an event that throttleEvent handles at once finds no
\* earlier event still waiting in the queue.
C34_ArrivalOrder ==
  [][(lastCall'.op \in PointerOps /\ IntervalElapsed) => eventQueue = <<>>]_vars

\* every pointer that went down has gone up or been cancelled (the
\* PointerEventManager tracks none) and the event queue has drained
AllUpAndDrained ==
  /\ isActive
  /\ pmPointers = {}
  /\ eventQueue = <<>>
  /\ ~isProcessingQueue

\* C35: once every pointer that went down has gone up or been cancelled and
\* the event queue has drained, the TouchStateManager is IDLE and tracks no
\* pointer, also when events were throttled or dropped on the way.
C35_AllUpMeansIdle ==
  AllUpAndDrained => (currentMode = IDLE /\ activePointers = EmptyMap)

-----------------------------------------------------------------------------
(* Claims about the strokes of the InputPipeline (SpecFinger, Spec)          *)

\* C36: the delayed callback scheduled at the end of one stroke never
\* finalizes another: endStroke runs on a stroke, and onStrokeCompleted is
\* invoked for it, only in the callback that the end of its own drawing
\* gesture scheduled.
C36_TimerFinalizesOwnStroke ==
  [][\A id \in DOMAIN strokes :
       (strokes'[id].endStroke > strokes[id].endStroke
          \/ strokes'[id].completed > strokes[id].completed)
         => (lastCall'.op = "strokeTimer" /\ lastCall'.stroke = id)]_vars


\* C37: every stroke announced with onStrokeStarted gets exactly one
\* terminating notification, onStrokeCompleted or onStrokeCancelled, never
\* both and never neither, also when reset or deactivate terminates it.
\* Between calls: no stroke has been reported terminated more than once, and
\* a stroke reported neither completed nor cancelled is still the
\* pipeline's active stroke, the only one a later call can terminate.
C37_OneTerminationPerStroke ==
  \A id \in DOMAIN strokes :
    /\ strokes[id].completed + strokes[id].cancelled <= 1
    /\ (strokes[id].completed + strokes[id].cancelled = 0) => activeStrokeId = id


-----------------------------------------------------------------------------
(* Claims about the viewport of the InputPipeline (SpecPan) *)

\* the step leaves the same two-pointer gesture in progress
PanContinues ==
  /\ currentGesture.type = PAN_ZOOM
  /\ currentGesture'.type = PAN_ZOOM
  /\ currentGesture'.startTime = currentGesture.startTime
  /\ currentGesture'.data.initialCentroid = currentGesture.data.initialCentroid

\* C38: during a two-pointer pan the pan accumulated in
\* currentViewportTransform, which onViewportChanged reports, is the
\* displacement of the pointer centroid since the gesture began, each
\* displacement counted once: a step of a pan in progress adds to the pan
\* what it adds to the centroid.
C38_PanCountsDisplacementOnce ==
  [][PanContinues =>
       subtract(currentViewportTransform'.pan, currentViewportTransform.pan)
         = subtract(currentGesture'.data.currentCentroid,
                    currentGesture.data.currentCentroid)]_vars


-----------------------------------------------------------------------------
(* Claims about the deactivated InputCoordinator (Spec) *)

\* C39: once InputCoordinator.deactivate() has returned, no pointer event
\* received before it is applied to the TouchStateManager any more: until the
\* next activate() the TouchStateManager stays IDLE and tracks no pointer.
C39_DeactivatedStaysIdle ==
  ~isActive => (currentMode = IDLE /\ activePointers = EmptyMap)


-----------------------------------------------------------------------------
(* Claims about the taps of the GestureRecognizer (SpecGesture) *)

\* C40: at most one TAP per pointer press.  While one pointer stays down
\* within tapRadius of where it went down, a recognizeGestures call made
\* after a TAP was returned for this press returns no further TAP and leaves
\* tapState.tapCount as it is.
C40_OneTapPerPress ==
  [][(/\ OnePointerRun
      /\ contact.within
      /\ SeenOfType(TAP) # {}
      /\ lastCall'.op = "recognizeGestures"
      /\ Len(contact'.pointers) = 1
      /\ contact'.within)
       => /\ Returned(recognized', TAP) = {}
          /\ tapState'.tapCount = tapState.tapCount]_vars

====
